---- MODULE Spec2Model ----
(***************************************************************************)
(* The streaming path of OpenAIProvider.request and                        *)
(* AnthropicProvider.request: one read loop per call that decodes the      *)
(* provider's frames, folds them into the aggregate, emits text on the     *)
(* live textStream and calls the hooks, next to the consumer of the        *)
(* textStream and the caller of the deferred accessors.                    *)
(*                                                                         *)
(* Strings of the program (text, tool-call names and arguments) are        *)
(* sequences of one-character strings, so that += is \o and the empty      *)
(* string is << >>.  A property that is absent on the wire is Undefined    *)
(* (ids), Null (stop reasons), Absent (numbers) or << >> (strings the code *)
(* only ever tests for truthiness).                                        *)
(***************************************************************************)
EXTENDS Integers, Sequences, FiniteSets, TLC

\* ------------------------------------------------------------------ bounds
MaxFrames == 3         \* frames the source delivers, over all its chunks
MaxAccessorCalls == 1  \* accessor calls the caller makes during one call

\* ------------------------------------------------------- absent JS values
Undefined == "undefined"
Null == "null"
Absent == -1

\* x || y on numbers: 0 and an absent property are both falsy
OrElse(x, y) == IF x = Absent \/ x = 0 THEN y ELSE x

RECURSIVE Concat(_)
Concat(ss) == IF ss = << >> THEN << >> ELSE Head(ss) \o Concat(Tail(ss))

\* ------------------------------------------------- the live ReadableStream
\* textStream with its one consumer: the controller's queue, the consumer's
\* outstanding read request, and what the consumer has been handed so far.
HighWaterMark == 1

NewStream ==
  [state |-> "readable", queue |-> << >>, closeRequested |-> FALSE,
   pending |-> FALSE, delivered |-> << >>, ended |-> "no", cancelled |-> FALSE]

\* controller.desiredSize; null (errored) compares as 0 in `<= 0`
DesiredSize(ts) ==
  IF ts.state = "errored" THEN 0
  ELSE IF ts.state = "closed" THEN 0
  ELSE HighWaterMark - Len(ts.queue)

CanEnqueue(ts) == ts.state = "readable" /\ ~ts.closeRequested

\* controller.enqueue(x) where it does not throw
Enqueue(ts, x) ==
  IF ts.pending
  THEN [ts EXCEPT !.pending = FALSE, !.delivered = Append(@, x)]
  ELSE [ts EXCEPT !.queue = Append(@, x)]

RECURSIVE EnqueueAll(_, _)
EnqueueAll(ts, xs) ==
  IF xs = << >> THEN ts ELSE EnqueueAll(Enqueue(ts, Head(xs)), Tail(xs))

\* controller.close() inside try/catch: a throw (already closed, errored) is swallowed
Close(ts) ==
  IF ~CanEnqueue(ts) THEN ts
  ELSE IF ts.queue = << >>
    THEN [ts EXCEPT !.state = "closed", !.closeRequested = TRUE,
                    !.pending = FALSE,
                    !.ended = IF ts.pending THEN "done" ELSE @]
    ELSE [ts EXCEPT !.closeRequested = TRUE]

\* a catch block that closes the stream where the code errors it
ErrorClosesInstead(ts) ==
  IF ts.state # "readable" THEN ts
  ELSE [ts EXCEPT !.state = "closed", !.queue = << >>, !.pending = FALSE,
                  !.ended = IF ts.pending THEN "done" ELSE @]

\* controller.error(e): the queue is reset and a pending read is rejected
Error(ts) ==
  IF ts.state # "readable" THEN ts
  ELSE [ts EXCEPT !.state = "errored", !.queue = << >>, !.pending = FALSE,
                  !.ended = IF ts.pending THEN "error" ELSE @]

\* the consumer's reader.read() on textStream
ConsumerReadStream(ts) ==
  IF ts.queue # << >>
  THEN [ts EXCEPT !.queue = Tail(@), !.delivered = Append(@, Head(ts.queue)),
                  !.state = IF ts.closeRequested /\ Len(ts.queue) = 1
                            THEN "closed" ELSE @]
  ELSE IF ts.state = "closed" THEN [ts EXCEPT !.ended = "done"]
  ELSE IF ts.state = "errored" THEN [ts EXCEPT !.ended = "error"]
  ELSE [ts EXCEPT !.pending = TRUE]

\* the consumer's cancel() (or leaving a for-await loop): the underlying
\* source has no cancel(), so the stream closes, the queue is dropped and a
\* pending read resolves with done; the read loop is not told
CancelStream(ts) ==
  [ts EXCEPT !.state = IF @ = "readable" THEN "closed" ELSE @,
             !.queue = << >>, !.pending = FALSE,
             !.ended = "cancelled", !.cancelled = TRUE]

\* ------------------------------------------------------- OpenAI wire frames
\* One line of a chunk.  kind: "json" (`data: <json>`), "done" (`data: [DONE]`),
\* "bad" (`data: ` followed by text JSON.parse rejects).
\* One entry of delta.tool_calls; name and arguments are function.name and
\* function.arguments.  A frame cut in two by a chunk boundary arrives as
\* "head" (`data: ` and the start of the JSON, last line of a chunk) and
\* "tail" (the rest of the JSON, first line of the next chunk).
ToolCallDelta(index, id, name, arguments) ==
  [index |-> index, id |-> id, name |-> name, arguments |-> arguments]

NoUsage == [prompt_tokens |-> Absent, completion_tokens |-> Absent, total_tokens |-> Absent]

OpenAIFrame(kind, content, tool_calls, finish_reason, usage) ==
  [kind |-> kind, content |-> content, tool_calls |-> tool_calls,
   finish_reason |-> finish_reason, usage |-> usage]

OText(t) == OpenAIFrame("json", t, << >>, Null, NoUsage)
OTool(tc) == OpenAIFrame("json", << >>, <<tc>>, Null, NoUsage)
OFinish(r) == OpenAIFrame("json", << >>, << >>, r, NoUsage)
OUsage(p, c, t) ==
  OpenAIFrame("json", << >>, << >>, Null,
              [prompt_tokens |-> p, completion_tokens |-> c, total_tokens |-> t])
ODone == OpenAIFrame("done", << >>, << >>, Null, NoUsage)
OBad == OpenAIFrame("bad", << >>, << >>, Null, NoUsage)
OHead(t) == OpenAIFrame("head", t, << >>, Null, NoUsage)
\* a JSON frame with no delta, finish_reason or usage
OOther == OpenAIFrame("json", << >>, << >>, Null, NoUsage)
\* one frame whose delta has both content and tool_calls
OTextTool(t, tc) == OpenAIFrame("json", t, <<tc>>, Null, NoUsage)
OTail(t) == OpenAIFrame("tail", t, << >>, Null, NoUsage)

\* ---------------------------------------------------- Anthropic wire frames
\* One `event: <name>` / `data: <json>` block.  ok = FALSE: JSON.parse rejects
\* the data.  delta_type, text, partial_json: eventData.delta of a
\* content_block_delta; tool_id, tool_name: content_block of a
\* content_block_start; input_tokens: message.usage of a message_start;
\* output_tokens, stop_reason: usage and delta of a message_delta.
\* event "": the block has no `event: ` line.  A text_delta block cut in two
\* by a chunk boundary arrives as AHead (the event line and the start of the
\* data) and ATail (the rest of the data).
AnthropicFrame(event, ok, delta_type, text, index, tool_id, tool_name, partial_json, input_tokens, output_tokens, stop_reason) ==
  [event |-> event, ok |-> ok, delta_type |-> delta_type, text |-> text,
   index |-> index, tool_id |-> tool_id, tool_name |-> tool_name,
   partial_json |-> partial_json, input_tokens |-> input_tokens,
   output_tokens |-> output_tokens, stop_reason |-> stop_reason]

AEvent(event) ==
  AnthropicFrame(event, TRUE, "none", << >>, 0, Undefined, << >>, << >>,
                 Absent, Absent, Null)
AText(t) == [AEvent("content_block_delta") EXCEPT !.delta_type = "text_delta", !.text = t]
AJsonDelta(i, frag) ==
  [AEvent("content_block_delta") EXCEPT !.delta_type = "input_json_delta",
                                        !.index = i, !.partial_json = frag]
AToolStart(i, id, name) ==
  [AEvent("content_block_start") EXCEPT !.index = i, !.tool_id = id, !.tool_name = name]
AMessageStart(n) == [AEvent("message_start") EXCEPT !.input_tokens = n]
AMessageDelta(n, r) ==
  [AEvent("message_delta") EXCEPT !.output_tokens = n, !.stop_reason = r]
AMessageStop == AEvent("message_stop")
AError == AEvent("error")
ABad == [AEvent("content_block_delta") EXCEPT !.ok = FALSE]
AHead(t) == [AText(t) EXCEPT !.ok = FALSE]
ATail(t) == [AText(t) EXCEPT !.event = ""]

\* ------------------------------------------------- the frames a run draws
\* Each run draws its frames from one family, so that every kind of frame
\* meets every other kind of its family within the bounds.
Families == {"text", "tool", "late", "usage", "stop", "split", "other", "mixed"}

\* an Anthropic event carries one thing, so it has no "mixed" frames
FamiliesOf(prov) == IF prov = "openai" THEN Families ELSE Families \ {"mixed"}

Vocabulary(prov, fam) ==
  IF prov = "openai" THEN
    CASE fam = "text" ->
           {OText(<<"a">>), OText(<<"b">>), ODone, OBad}
      [] fam = "tool" ->
           {OTool(ToolCallDelta(0, "id1", <<"f">>, <<"{">>)),
            OTool(ToolCallDelta(0, Undefined, << >>, <<"k", "}">>)),
            OTool(ToolCallDelta(1, "id2", <<"g">>, <<"{">>)),
            OTool(ToolCallDelta(1, Undefined, << >>, <<"}">>))}
      [] fam = "late" ->
           {OTool(ToolCallDelta(0, Undefined, <<"f">>, <<"{">>)),
            OTool(ToolCallDelta(0, "id1", << >>, << >>)),
            OTool(ToolCallDelta(0, "id1", << >>, <<"}">>)),
            OTool(ToolCallDelta(0, Undefined, <<"f">>, << >>))}
      [] fam = "usage" ->
           {OUsage(1, Absent, Absent), OUsage(Absent, 1, Absent),
            OUsage(2, 1, 5), OUsage(0, 2, 2)}
      [] fam = "stop" ->
           {OFinish("stop"), OFinish("length"), OText(<<"a">>), ODone}
      [] fam = "split" ->
           {OText(<<"b">>), OHead(<<"a">>), OTail(<<"a">>)}
      [] fam = "other" ->
           {OOther, OText(<<"a">>), OFinish("stop")}
      [] fam = "mixed" ->
           {OTextTool(<<"a">>, ToolCallDelta(0, "id1", <<"f">>, <<"{">>)),
            OTool(ToolCallDelta(0, "id1", <<"f">>, <<"{">>)),
            OTool(ToolCallDelta(0, Undefined, << >>, <<"}">>)),
            OText(<<"b">>)}
  ELSE
    CASE fam = "text" ->
           {AText(<<"a">>), AText(<<"b">>), AMessageStop, AError, ABad}
      [] fam = "tool" ->
           {AToolStart(0, "id1", <<"f">>), AJsonDelta(0, <<"{">>),
            AJsonDelta(0, <<"k", "}">>), AJsonDelta(0, <<"{", "}">>)}
      [] fam = "late" ->
           {AToolStart(1, "id2", <<"g">>), AJsonDelta(1, <<"{", "}">>),
            AJsonDelta(0, <<"{", "}">>), AText(<<"a">>)}
      [] fam = "usage" ->
           {AMessageStart(1), AMessageStart(Absent), AMessageStart(0),
            AMessageDelta(1, Null), AMessageDelta(Absent, Null),
            AMessageDelta(2, Null)}
      [] fam = "stop" ->
           {AMessageDelta(1, "end_turn"), AMessageDelta(Absent, "max_tokens"),
            AMessageStop, AText(<<"a">>)}
      [] fam = "split" ->
           {AText(<<"b">>), AHead(<<"a">>), ATail(<<"a">>)}
      [] fam = "other" ->
           {AEvent("ping"), AEvent("unknown_event"), AEvent("content_block_stop"),
            AText(<<"a">>)}

RECURSIVE SeqsUpTo(_, _)
SeqsUpTo(S, n) ==
  IF n = 0 THEN {<< >>}
  ELSE LET shorter == SeqsUpTo(S, n - 1)
       IN  shorter \cup {Append(q, x) : q \in shorter, x \in S}

IsHead(prov, f) ==
  IF prov = "openai" THEN f.kind = "head" ELSE ~f.ok /\ f.text # << >>

IsTail(prov, f) ==
  IF prov = "openai" THEN f.kind = "tail" ELSE f.event = ""

\* the frame whose two pieces are a head and a tail
WholeOf(prov, f) == IF prov = "openai" THEN OText(f.content) ELSE AText(f.text)

\* the chunk prev ends inside a frame
EndsInHead(prov, prev) == prev # << >> /\ IsHead(prov, prev[Len(prev)])

\* c continues the byte stream after prev: only the last line of a chunk can
\* be cut, and the next chunk then starts with the rest of that frame
WellCut(prov, prev, c) ==
  /\ \A i \in 1..Len(c) : IsHead(prov, c[i]) => i = Len(c)
  /\ \A i \in 1..Len(c) :
       IsTail(prov, c[i]) =>
         /\ i = 1 /\ EndsInHead(prov, prev)
         /\ WholeOf(prov, c[i]) = WholeOf(prov, prev[Len(prev)])
  /\ EndsInHead(prov, prev) => IsTail(prov, c[1])

\* the values reader.read() can resolve with after the chunk prev: one chunk
\* of at most n lines
Chunks(prov, fam, n, prev) ==
  {c \in SeqsUpTo(Vocabulary(prov, fam), n) \ {<< >>} : WellCut(prov, prev, c)}

\* the well-formed JSON frames the bytes of chunk c complete
RECURSIVE WholeFrames(_, _)
WholeFrames(prov, c) ==
  IF c = << >> THEN << >>
  ELSE LET f == Head(c)
           here == IF IsTail(prov, f) THEN <<WholeOf(prov, f)>>
                   ELSE IF prov = "openai" /\ f.kind = "json" THEN <<f>>
                   ELSE IF prov = "anthropic" /\ f.ok THEN <<f>>
                   ELSE << >>
       IN  here \o WholeFrames(prov, Tail(c))

\* ------------------------------------------------------------------ state
VARIABLES
  provider,        \* "openai" | "anthropic": the provider whose request() runs
  hasOnMessage,    \* params.onMessage is registered
  family,          \* the family the source's frames are drawn from
  pc,              \* where the read loop of start(controller) stands
  chunk,           \* the value of the last reader.read(), as frames
  idx,             \* the frame of chunk being processed (1-based)
  frames,          \* frames read so far, over all chunks
  aggregatedContent,          \* openai.ts
  aggregatedToolCalls,        \* openai.ts
  finalStopReason,            \* openai.ts
  finalUsage,                 \* openai.ts
  aggregatedTextContent,      \* anthropic.ts
  currentUsage,               \* anthropic.ts
  currentStopReason,          \* anthropic.ts
  finalMessageContentBlocks,  \* anthropic.ts
  textStream,      \* the live ReadableStream and its consumer
  readerLocked,    \* the lock getReader() took on response.body
  onMessageCalls,  \* chunk.type of every onMessage invocation
  onErrorCalls,    \* kind of every onError invocation
  onFinishCalls,   \* arguments of every onFinish invocation
  received,        \* the parsed frames the loop has taken from the source
  wireFrames,      \* the well-formed frames the source's bytes have carried
  accessorCalls,   \* what finalResponse(), usage(), stopReason() resolved with
  calls,           \* concurrent request() calls: provider, frames to come and taken
  aggregates,      \* the aggregate variables of each running request()
  reports,         \* the onFinish arguments of each concurrent call
  stream,          \* params.stream of a generate() call: "true", "false" or Undefined
  hasOnBeforeCall, \* params.onBeforeCall is registered
  failure,         \* the step of request() that fails before any stream data
  requestPc,       \* where generate() and request() stand before the stream
  requestErrors,   \* who invoked onError for the failure, in order
  requestLog,      \* onBeforeCall, fetch, onMessage, onFinish as they happen
  generateResult,  \* how the promise of generate() (index.ts) settled
  maxRetries,      \* maxRetries of a single-shot generate() call
  modelOutcomes,   \* what model.doGenerate does, attempt by attempt
  attempt,         \* doGenerate calls made so far
  singlePc,        \* where the single-shot generate() stands
  singleResult,    \* how the promise of the single-shot generate() settled
  writerStream,    \* the chunks the stream given to writeToServerResponse holds
  writerEnding,    \* after them reader.read() resolves with done, or rejects
  writerIdx,       \* chunks read so far
  writerPc,        \* where read() of writeToServerResponse stands
  responseLog,     \* the calls made on the ServerResponse, in order
  readPromise      \* state of the promise returned by read()

config == <<provider, hasOnMessage, family>>
loop == <<pc, chunk, idx, frames>>
openaiAgg == <<aggregatedContent, aggregatedToolCalls, finalStopReason, finalUsage>>
anthropicAgg == <<aggregatedTextContent, currentUsage, currentStopReason>>
hooks == <<onMessageCalls, onErrorCalls, onFinishCalls>>
streamVars == <<config, loop, openaiAgg, anthropicAgg, finalMessageContentBlocks,
                textStream, readerLocked, hooks, received, wireFrames, accessorCalls>>
twoCallsVars == <<calls, aggregates, reports>>
requestVars == <<stream, hasOnBeforeCall, failure, requestPc, requestErrors,
                 requestLog, generateResult>>
singleVars == <<maxRetries, modelOutcomes, attempt, singlePc, singleResult>>
writerVars == <<writerStream, writerEnding, writerIdx, writerPc, responseLog,
                readPromise>>
others == <<twoCallsVars, requestVars, singleVars, writerVars>>
vars == <<streamVars, others>>

\* no concurrent calls are modelled
NoTwoCalls ==
  /\ calls = << >>
  /\ aggregates = << >>
  /\ reports = << >>

\* a promise: pending, fulfilled with a result object, or rejected with an error
NoValue == [response |-> Undefined, usage |-> Undefined, stopReason |-> Undefined]

Pending == [state |-> "pending", value |-> NoValue, error |-> "none"]

Fulfilled(v) == [state |-> "fulfilled", value |-> v, error |-> "none"]

Rejected(e) == [state |-> "rejected", value |-> NoValue, error |-> e]

\* no generate() call of index.ts is modelled
NoRequest ==
  /\ stream = Undefined
  /\ hasOnBeforeCall = FALSE
  /\ failure = "none"
  /\ requestPc = "settled"
  /\ requestErrors = << >>
  /\ requestLog = << >>
  /\ generateResult = Pending

\* no single-shot generate() call is modelled
NoSingleShot ==
  /\ maxRetries = 0
  /\ modelOutcomes = << >>
  /\ attempt = 0
  /\ singlePc = "settled"
  /\ singleResult = Pending

\* no writeToServerResponse call is modelled
NoWriter ==
  /\ writerStream = << >>
  /\ writerEnding = "done"
  /\ writerIdx = 0
  /\ writerPc = "settled"
  /\ responseLog = << >>
  /\ readPromise = "fulfilled"

\* the state in which start(controller) is entered
StreamStart ==
  /\ pc = "read"
  /\ chunk = << >>
  /\ idx = 0
  /\ frames = 0
  /\ aggregatedContent = << >>
  /\ aggregatedToolCalls = << >>
  /\ finalStopReason = Null
  /\ finalUsage = [inputTokens |-> 0, outputTokens |-> 0, totalTokens |-> 0]
  /\ aggregatedTextContent = << >>
  /\ currentUsage = [inputTokens |-> 0, outputTokens |-> 0, totalTokens |-> Absent]
  /\ currentStopReason = Null
  /\ finalMessageContentBlocks = << >>
  /\ textStream = NewStream
  /\ readerLocked = TRUE
  /\ onMessageCalls = << >>
  /\ onErrorCalls = << >>
  /\ onFinishCalls = << >>
  /\ received = << >>
  /\ wireFrames = << >>
  /\ accessorCalls = << >>

\* onError and onFinish are registered; onMessage may or may not be.
Init ==
  /\ provider \in {"openai", "anthropic"}
  /\ hasOnMessage \in BOOLEAN
  /\ family \in FamiliesOf(provider)
  /\ StreamStart
  /\ NoTwoCalls /\ NoRequest /\ NoSingleShot /\ NoWriter

\* ------------------------------------------------------ OpenAI: aggregation
\* delta.tool_calls.forEach body
ApplyToolCallDelta(tcs, d) ==
  IF d.index >= Len(tcs)
  THEN Append(tcs, [id |-> d.id, type |-> "function",
                    name |-> d.name, arguments |-> d.arguments])
  ELSE [tcs EXCEPT ![d.index + 1] =
          [@ EXCEPT !.name = @ \o d.name, !.arguments = @ \o d.arguments]]

RECURSIVE ApplyToolCallDeltas(_, _)
ApplyToolCallDeltas(tcs, ds) ==
  IF ds = << >> THEN tcs
  ELSE ApplyToolCallDeltas(ApplyToolCallDelta(tcs, Head(ds)), Tail(ds))

\* chunk.type handed to onMessage
OpenAIProcessedType(f) ==
  IF f.content # << >> THEN "text_delta"
  ELSE IF f.tool_calls # << >> THEN "tool_call_delta"
  ELSE "other"

\* finalUsage after `if (chunkData.usage) { ... }`
OpenAIUsageAfter(u, f) ==
  [inputTokens |-> OrElse(f.usage.prompt_tokens, u.inputTokens),
   outputTokens |-> OrElse(f.usage.completion_tokens, u.outputTokens),
   totalTokens |-> OrElse(f.usage.total_tokens, u.totalTokens)]

\* a final message that is dropped when a tool call's arguments do not parse
OpenAIFinalMessageParsesArguments ==
  IF \E k \in 1..Len(aggregatedToolCalls) :
       LET a == aggregatedToolCalls[k].arguments
       IN  ~(Len(a) >= 2 /\ a[1] = "{" /\ a[Len(a)] = "}")
  THEN [role |-> "assistant", content |-> << >>, toolCalls |-> << >>]
  ELSE [role |-> "assistant", content |-> aggregatedContent,
        toolCalls |-> aggregatedToolCalls]

\* the message built in finally and by finalResponse(); toolCalls << >> is undefined
OpenAIFinalMessage ==
  [role |-> "assistant", content |-> aggregatedContent, toolCalls |-> aggregatedToolCalls]

\* the part of a line's handling that follows the onMessage block
OpenAIStopAndUsage(f) ==
  /\ finalStopReason' = IF f.finish_reason # Null THEN f.finish_reason ELSE finalStopReason
  /\ finalUsage' = OpenAIUsageAfter(finalUsage, f)

OpenAINextLine ==
  IF idx < Len(chunk)
  THEN pc' = "line" /\ idx' = idx + 1
  ELSE pc' = "enqueue" /\ idx' = idx

\* a finally block that leaves the reader locked
OpenAIFinallyKeepsLock(ts) ==
  /\ textStream' = IF DesiredSize(ts) <= 0 THEN ts ELSE Close(ts)
  /\ readerLocked' = readerLocked
  /\ onFinishCalls' = Append(onFinishCalls,
       [finalResponse |-> OpenAIFinalMessage, usage |-> finalUsage,
        stopReason |-> finalStopReason])
  /\ pc' = "done"

\* the finally block of start(controller), entered with the stream as ts
OpenAIFinally(ts) ==
  /\ textStream' = IF DesiredSize(ts) <= 0 THEN ts ELSE Close(ts)
  /\ readerLocked' = FALSE
  /\ onFinishCalls' = Append(onFinishCalls,
       [finalResponse |-> OpenAIFinalMessage, usage |-> finalUsage,
        stopReason |-> finalStopReason])
  /\ pc' = "done"

\* ----------------------------------------------------- OpenAI: the read loop
\* reader.read() resolves with a chunk and processChunk starts on it
OpenAIRead ==
  /\ provider = "openai" /\ pc = "read" /\ frames < MaxFrames
  /\ \E c \in Chunks(provider, family, MaxFrames - frames, chunk) :
       /\ chunk' = c /\ frames' = frames + Len(c)
       /\ wireFrames' = wireFrames \o WholeFrames(provider, c)
  /\ idx' = 1 /\ pc' = "line"
  /\ UNCHANGED <<config, openaiAgg, anthropicAgg, finalMessageContentBlocks,
                 textStream, readerLocked, hooks, received, accessorCalls>>
  /\ UNCHANGED others

\* reader.read() resolves with done: break, then finally
OpenAIReadDone ==
  /\ provider = "openai" /\ pc = "read"
  /\ OpenAIFinally(textStream)
  /\ UNCHANGED <<config, chunk, idx, frames, openaiAgg, anthropicAgg,
                 finalMessageContentBlocks, onMessageCalls, onErrorCalls,
                 received, accessorCalls>>
  /\ UNCHANGED wireFrames
  /\ UNCHANGED others

\* reader.read() rejects: catch (error), controller.error, await onError
OpenAIReadFail ==
  /\ provider = "openai" /\ pc = "read"
  /\ textStream' = Error(textStream)
  /\ onErrorCalls' = Append(onErrorCalls, "transport")
  /\ pc' = "catch"
  /\ UNCHANGED <<config, chunk, idx, frames, openaiAgg, anthropicAgg,
                 finalMessageContentBlocks, readerLocked, onMessageCalls,
                 onFinishCalls, received, accessorCalls>>
  /\ UNCHANGED wireFrames
  /\ UNCHANGED others

\* onError of the catch block has returned: finally
OpenAIAfterCatch ==
  /\ provider = "openai" /\ pc = "catch"
  /\ OpenAIFinally(textStream)
  /\ UNCHANGED <<config, chunk, idx, frames, openaiAgg, anthropicAgg,
                 finalMessageContentBlocks, onMessageCalls, onErrorCalls,
                 received, accessorCalls>>
  /\ UNCHANGED wireFrames
  /\ UNCHANGED others

\* processChunk: one line, up to its first await
OpenAIProcessLine ==
  /\ provider = "openai" /\ pc = "line"
  /\ LET f == chunk[idx] IN
       CASE f.kind = "done" ->
              /\ pc' = "enqueue"
              /\ UNCHANGED <<idx, openaiAgg, hooks, received>>
         [] f.kind = "tail" ->
              \* the line does not start with `data: `: skipped
              /\ OpenAINextLine
              /\ UNCHANGED <<openaiAgg, hooks, received>>
         [] f.kind \in {"bad", "head"} ->
              /\ onErrorCalls' = Append(onErrorCalls, "frame")
              /\ pc' = "errhook"
              /\ UNCHANGED <<idx, openaiAgg, onMessageCalls, onFinishCalls, received>>
         [] f.kind = "json" /\ hasOnMessage ->
              /\ received' = Append(received, f)
              /\ aggregatedContent' =
                   IF f.content # << >> THEN aggregatedContent \o f.content
                   ELSE aggregatedContent
              /\ aggregatedToolCalls' =
                   IF f.content = << >> /\ f.tool_calls # << >>
                   THEN ApplyToolCallDeltas(aggregatedToolCalls, f.tool_calls)
                   ELSE aggregatedToolCalls
              /\ onMessageCalls' = Append(onMessageCalls, OpenAIProcessedType(f))
              /\ pc' = "hook"
              /\ UNCHANGED <<idx, finalStopReason, finalUsage, onErrorCalls, onFinishCalls>>
         [] f.kind = "json" /\ ~hasOnMessage ->
              /\ received' = Append(received, f)
              /\ OpenAIStopAndUsage(f)
              /\ OpenAINextLine
              /\ UNCHANGED <<aggregatedContent, aggregatedToolCalls, hooks>>
  /\ UNCHANGED <<config, chunk, frames, anthropicAgg, finalMessageContentBlocks,
                 textStream, readerLocked, accessorCalls>>
  /\ UNCHANGED wireFrames
  /\ UNCHANGED others

\* onMessage has returned: finish_reason and usage of the line, then the next line
OpenAIAfterOnMessage ==
  /\ provider = "openai" /\ pc = "hook"
  /\ OpenAIStopAndUsage(chunk[idx])
  /\ OpenAINextLine
  /\ UNCHANGED <<config, chunk, frames, aggregatedContent, aggregatedToolCalls,
                 anthropicAgg, finalMessageContentBlocks, textStream,
                 readerLocked, hooks, received, accessorCalls>>
  /\ UNCHANGED wireFrames
  /\ UNCHANGED others

\* a line's catch that returns from processChunk where the code goes on
OpenAIAfterOnErrorReturns ==
  /\ provider = "openai" /\ pc = "errhook"
  /\ pc' = "enqueue"
  /\ UNCHANGED <<config, chunk, idx, frames, openaiAgg, anthropicAgg,
                 finalMessageContentBlocks, textStream, readerLocked, hooks,
                 received, wireFrames, accessorCalls>>
  /\ UNCHANGED others

\* onError of a line's catch has returned: the next line
OpenAIAfterOnError ==
  /\ provider = "openai" /\ pc = "errhook"
  /\ OpenAINextLine
  /\ UNCHANGED <<config, chunk, frames, openaiAgg, anthropicAgg,
                 finalMessageContentBlocks, textStream, readerLocked, hooks,
                 received, accessorCalls>>
  /\ UNCHANGED wireFrames
  /\ UNCHANGED others

\* the lines the second pass looks at: those before `data: [DONE]`
RECURSIVE BeforeDone(_)
BeforeDone(fs) ==
  IF fs = << >> \/ Head(fs).kind = "done" THEN << >>
  ELSE <<Head(fs)>> \o BeforeDone(Tail(fs))

HasDone(fs) == \E i \in 1..Len(fs) : fs[i].kind = "done"

\* the text deltas the second pass enqueues
RECURSIVE OpenAITextDeltas(_)
OpenAITextDeltas(fs) ==
  IF fs = << >> THEN << >>
  ELSE (IF Head(fs).kind = "json" /\ Head(fs).content # << >>
        THEN <<Head(fs).content>> ELSE << >>) \o OpenAITextDeltas(Tail(fs))

\* processChunk has resolved: the second pass over the chunk enqueues its text
\* deltas, closes at [DONE] and returns through finally, or reads again
OpenAIEnqueuePass ==
  /\ provider = "openai" /\ pc = "enqueue"
  /\ LET ts1 == IF CanEnqueue(textStream)
                THEN EnqueueAll(textStream, OpenAITextDeltas(BeforeDone(chunk)))
                ELSE textStream
     IN  IF ~HasDone(chunk)
         THEN /\ textStream' = ts1
              /\ pc' = "read"
              /\ UNCHANGED <<readerLocked, hooks>>
         ELSE IF CanEnqueue(ts1)
         THEN /\ OpenAIFinally(Close(ts1))
              /\ UNCHANGED <<onMessageCalls, onErrorCalls>>
         ELSE \* controller.close() throws: the catch block of the read loop
              /\ textStream' = Error(ts1)
              /\ onErrorCalls' = Append(onErrorCalls, "loop")
              /\ pc' = "catch"
              /\ UNCHANGED <<readerLocked, onMessageCalls, onFinishCalls>>
  /\ UNCHANGED <<config, chunk, idx, frames, openaiAgg, anthropicAgg,
                 finalMessageContentBlocks, received, accessorCalls>>
  /\ UNCHANGED wireFrames
  /\ UNCHANGED others

\* --------------------------------------------------- Anthropic: aggregation
TextPart(t) == [type |-> "text", text |-> t]

\* chunk.type of the onMessage call an event makes; "none": no call is made
AnthropicProcessedType(f) ==
  CASE f.event \in {"message_start", "content_block_start", "content_block_stop",
                    "message_delta"} -> "other"
    [] f.event = "content_block_delta" ->
         IF f.delta_type = "text_delta" THEN "text_delta"
         ELSE IF f.delta_type = "input_json_delta" THEN "tool_call_delta"
         ELSE "other"
    [] f.event = "message_stop" -> "stop"
    [] OTHER -> "none"

\* a finally block whose close() is not guarded: on a stream that is no
\* longer readable it throws before releaseLock() and onFinish
AnthropicFinallyCloseThrows(ts) ==
  IF CanEnqueue(ts)
  THEN /\ textStream' = Close(ts)
       /\ readerLocked' = FALSE
       /\ finalMessageContentBlocks' =
            Append(finalMessageContentBlocks, TextPart(aggregatedTextContent))
       /\ currentUsage' = [currentUsage EXCEPT
            !.totalTokens = currentUsage.inputTokens + currentUsage.outputTokens]
       /\ onFinishCalls' = Append(onFinishCalls,
            [finalResponse |-> [role |-> "assistant",
                                content |-> Append(finalMessageContentBlocks,
                                                   TextPart(aggregatedTextContent))],
             usage |-> [currentUsage EXCEPT
               !.totalTokens = currentUsage.inputTokens + currentUsage.outputTokens],
             stopReason |-> currentStopReason])
       /\ pc' = "done"
  ELSE /\ textStream' = ts
       /\ pc' = "done"
       /\ UNCHANGED <<readerLocked, finalMessageContentBlocks, currentUsage,
                      onFinishCalls>>

\* the finally block of start(controller), entered with the stream as ts
AnthropicFinally(ts) ==
  LET blocks == Append(finalMessageContentBlocks, TextPart(aggregatedTextContent))
      usage == [currentUsage EXCEPT
                  !.totalTokens = currentUsage.inputTokens + currentUsage.outputTokens]
  IN  /\ textStream' = Close(ts)
      /\ readerLocked' = FALSE
      /\ finalMessageContentBlocks' = blocks
      /\ currentUsage' = usage
      /\ onFinishCalls' = Append(onFinishCalls,
           [finalResponse |-> [role |-> "assistant", content |-> blocks],
            usage |-> usage, stopReason |-> currentStopReason])
      /\ pc' = "done"

\* after an event: `break` on message_stop, else the next eventLine; past the
\* last one the loop reaches `if (eventName === 'message_stop') break;`
AnthropicNextEvent ==
  IF chunk[idx].ok /\ chunk[idx].event = "message_stop"
  THEN pc' = "afterloop" /\ idx' = idx
  ELSE IF idx < Len(chunk)
  THEN pc' = "event" /\ idx' = idx + 1
  ELSE pc' = "afterloop" /\ idx' = idx

\* -------------------------------------------------- Anthropic: the read loop
\* reader.read() resolves with a chunk
AnthropicRead ==
  /\ provider = "anthropic" /\ pc = "read" /\ frames < MaxFrames
  /\ \E c \in Chunks(provider, family, MaxFrames - frames, chunk) :
       /\ chunk' = c /\ frames' = frames + Len(c)
       /\ wireFrames' = wireFrames \o WholeFrames(provider, c)
  /\ idx' = 1 /\ pc' = "event"
  /\ UNCHANGED <<config, openaiAgg, anthropicAgg, finalMessageContentBlocks,
                 textStream, readerLocked, hooks, received, accessorCalls>>
  /\ UNCHANGED others

\* reader.read() resolves with done: break, then finally
AnthropicReadDone ==
  /\ provider = "anthropic" /\ pc = "read"
  /\ AnthropicFinally(textStream)
  /\ UNCHANGED <<config, chunk, idx, frames, openaiAgg, aggregatedTextContent,
                 currentStopReason, onMessageCalls, onErrorCalls, received,
                 accessorCalls>>
  /\ UNCHANGED wireFrames
  /\ UNCHANGED others

\* reader.read() rejects: catch (error), streamController.error, await onError
AnthropicReadFail ==
  /\ provider = "anthropic" /\ pc = "read"
  /\ textStream' = Error(textStream)
  /\ onErrorCalls' = Append(onErrorCalls, "transport")
  /\ pc' = "catch"
  /\ UNCHANGED <<config, chunk, idx, frames, openaiAgg, anthropicAgg,
                 finalMessageContentBlocks, readerLocked, onMessageCalls,
                 onFinishCalls, received, accessorCalls>>
  /\ UNCHANGED wireFrames
  /\ UNCHANGED others

\* one eventLine of the chunk, up to its first await
AnthropicProcessEvent ==
  /\ provider = "anthropic" /\ pc = "event"
  /\ LET f == chunk[idx]
         isText == f.event = "content_block_delta" /\ f.delta_type = "text_delta"
         type == AnthropicProcessedType(f)
     IN
       IF f.event = ""
       THEN \* `if (!eventName || !dataStr) continue;`
            /\ AnthropicNextEvent
            /\ UNCHANGED <<anthropicAgg, textStream, hooks, received>>
       ELSE IF ~f.ok
       THEN \* JSON.parse throws: the frame's catch
            /\ onErrorCalls' = Append(onErrorCalls, "frame")
            /\ pc' = "errhook"
            /\ UNCHANGED <<idx, anthropicAgg, textStream, onMessageCalls, received>>
       ELSE IF f.event = "error"
       THEN /\ onErrorCalls' = Append(onErrorCalls, "provider")
            /\ received' = Append(received, f)
            /\ pc' = "errorhook"
            /\ UNCHANGED <<idx, anthropicAgg, textStream, onMessageCalls>>
       ELSE IF isText /\ ~CanEnqueue(textStream)
       THEN \* enqueue throws after the text is aggregated: the frame's catch
            /\ aggregatedTextContent' = aggregatedTextContent \o f.text
            /\ received' = Append(received, f)
            /\ onErrorCalls' = Append(onErrorCalls, "frame")
            /\ pc' = "errhook"
            /\ UNCHANGED <<idx, currentUsage, currentStopReason, textStream,
                           onMessageCalls>>
       ELSE /\ received' = Append(received, f)
            /\ aggregatedTextContent' =
                 IF isText THEN aggregatedTextContent \o f.text
                 ELSE aggregatedTextContent
            /\ textStream' = IF isText THEN Enqueue(textStream, f.text) ELSE textStream
            /\ currentUsage' =
                 CASE f.event = "message_start" ->
                        [currentUsage EXCEPT !.inputTokens = OrElse(f.input_tokens, 0)]
                   [] f.event = "message_delta" ->
                        [currentUsage EXCEPT
                           !.outputTokens = OrElse(f.output_tokens, @)]
                   [] OTHER -> currentUsage
            /\ currentStopReason' =
                 IF f.event = "message_delta" /\ f.stop_reason # Null
                 THEN f.stop_reason ELSE currentStopReason
            /\ IF hasOnMessage /\ type # "none"
               THEN /\ onMessageCalls' = Append(onMessageCalls, type)
                    /\ pc' = "hook"
                    /\ idx' = idx
               ELSE /\ AnthropicNextEvent
                    /\ UNCHANGED onMessageCalls
            /\ UNCHANGED onErrorCalls
  /\ UNCHANGED <<config, chunk, frames, openaiAgg, finalMessageContentBlocks,
                 readerLocked, onFinishCalls, accessorCalls>>
  /\ UNCHANGED wireFrames
  /\ UNCHANGED others

\* onMessage has returned
AnthropicAfterOnMessage ==
  /\ provider = "anthropic" /\ pc = "hook"
  /\ AnthropicNextEvent
  /\ UNCHANGED <<config, chunk, frames, openaiAgg, anthropicAgg,
                 finalMessageContentBlocks, textStream, readerLocked, hooks,
                 received, accessorCalls>>
  /\ UNCHANGED wireFrames
  /\ UNCHANGED others

\* onError of a frame's catch has returned
AnthropicAfterOnError ==
  /\ provider = "anthropic" /\ pc = "errhook"
  /\ AnthropicNextEvent
  /\ UNCHANGED <<config, chunk, frames, openaiAgg, anthropicAgg,
                 finalMessageContentBlocks, textStream, readerLocked, hooks,
                 received, accessorCalls>>
  /\ UNCHANGED wireFrames
  /\ UNCHANGED others

\* an `error` branch without its return: the loop goes on with the next event
AnthropicAfterErrorEventGoesOn ==
  /\ provider = "anthropic" /\ pc = "errorhook"
  /\ textStream' = Error(textStream)
  /\ AnthropicNextEvent
  /\ UNCHANGED <<config, chunk, frames, openaiAgg, anthropicAgg,
                 finalMessageContentBlocks, readerLocked, hooks, received,
                 wireFrames, accessorCalls>>
  /\ UNCHANGED others

\* onError of an `error` event has returned: streamController.error(err);
\* return, through finally
AnthropicAfterErrorEvent ==
  /\ provider = "anthropic" /\ pc = "errorhook"
  /\ AnthropicFinally(Error(textStream))
  /\ UNCHANGED <<config, chunk, idx, frames, openaiAgg, aggregatedTextContent,
                 currentStopReason, onMessageCalls, onErrorCalls, received,
                 accessorCalls>>
  /\ UNCHANGED wireFrames
  /\ UNCHANGED others

\* `if (eventName === 'message_stop') break;` after the for loop: eventName is
\* declared inside the for body, so the reference throws a ReferenceError,
\* which the catch block of the read loop takes
AnthropicAfterEvents ==
  /\ provider = "anthropic" /\ pc = "afterloop"
  /\ textStream' = Error(textStream)
  /\ onErrorCalls' = Append(onErrorCalls, "loop")
  /\ pc' = "catch"
  /\ UNCHANGED <<config, chunk, idx, frames, openaiAgg, anthropicAgg,
                 finalMessageContentBlocks, readerLocked, onMessageCalls,
                 onFinishCalls, received, accessorCalls>>
  /\ UNCHANGED wireFrames
  /\ UNCHANGED others

\* onError of the catch block has returned: finally
AnthropicAfterCatch ==
  /\ provider = "anthropic" /\ pc = "catch"
  /\ AnthropicFinally(textStream)
  /\ UNCHANGED <<config, chunk, idx, frames, openaiAgg, aggregatedTextContent,
                 currentStopReason, onMessageCalls, onErrorCalls, received,
                 accessorCalls>>
  /\ UNCHANGED wireFrames
  /\ UNCHANGED others

\* ------------------------------------------- the caller, next to the loop
\* The read loop yields to other code only at an await: reader.read(), a hook,
\* processChunk, or after it has ended.
Suspended == pc \in {"read", "hook", "errhook", "errorhook", "enqueue", "catch", "done"}

\* the consumer of textStream asks for the next item
ConsumerRead ==
  /\ Suspended
  /\ textStream.ended = "no" /\ ~textStream.pending
  /\ textStream' = ConsumerReadStream(textStream)
  /\ UNCHANGED <<config, loop, openaiAgg, anthropicAgg, finalMessageContentBlocks,
                 readerLocked, hooks, received, accessorCalls>>
  /\ UNCHANGED wireFrames
  /\ UNCHANGED others

\* the consumer of textStream cancels it
ConsumerCancel ==
  /\ Suspended
  /\ textStream.ended = "no"
  /\ textStream' = CancelStream(textStream)
  /\ UNCHANGED <<config, loop, openaiAgg, anthropicAgg, finalMessageContentBlocks,
                 readerLocked, hooks, received, wireFrames, accessorCalls>>
  /\ UNCHANGED others

\* a finalResponse() that returns the text of the last text delta only
AnthropicFinalResponseBlocksLastDelta ==
  IF aggregatedTextContent # << >>
  THEN <<TextPart(<<aggregatedTextContent[Len(aggregatedTextContent)]>>)>>
  ELSE << >>

\* what finalResponse() leaves in finalMessageContentBlocks (anthropic.ts)
AnthropicFinalResponseBlocks ==
  IF aggregatedTextContent # << >> THEN <<TextPart(aggregatedTextContent)>> ELSE << >>

\* the bodies of the accessors of the returned GenerateResultStreaming
FinalResponseNow ==
  IF provider = "openai" THEN OpenAIFinalMessage
  ELSE [role |-> "assistant", content |-> AnthropicFinalResponseBlocks]

UsageNow ==
  IF provider = "openai" THEN finalUsage
  ELSE [currentUsage EXCEPT
          !.totalTokens = currentUsage.inputTokens + currentUsage.outputTokens]

StopReasonNow == IF provider = "openai" THEN finalStopReason ELSE currentStopReason

\* an async accessor resolves with the value its body computed when called;
\* early: the read loop had not ended then
Resolved(accessor, value) ==
  [accessor |-> accessor, early |-> pc # "done", value |-> value]

\* result.finalResponse()
CallFinalResponse ==
  /\ Suspended /\ Len(accessorCalls) < MaxAccessorCalls
  /\ finalMessageContentBlocks' =
       IF provider = "anthropic" THEN AnthropicFinalResponseBlocks
       ELSE finalMessageContentBlocks
  /\ accessorCalls' = Append(accessorCalls, Resolved("finalResponse", FinalResponseNow))
  /\ UNCHANGED <<config, loop, openaiAgg, anthropicAgg, textStream, readerLocked,
                 hooks, received>>
  /\ UNCHANGED wireFrames
  /\ UNCHANGED others

\* result.usage()
CallUsage ==
  /\ Suspended /\ Len(accessorCalls) < MaxAccessorCalls
  /\ accessorCalls' = Append(accessorCalls, Resolved("usage", UsageNow))
  /\ UNCHANGED <<config, loop, openaiAgg, anthropicAgg, finalMessageContentBlocks,
                 textStream, readerLocked, hooks, received>>
  /\ UNCHANGED wireFrames
  /\ UNCHANGED others

\* result.stopReason()
CallStopReason ==
  /\ Suspended /\ Len(accessorCalls) < MaxAccessorCalls
  /\ accessorCalls' = Append(accessorCalls, Resolved("stopReason", StopReasonNow))
  /\ UNCHANGED <<config, loop, openaiAgg, anthropicAgg, finalMessageContentBlocks,
                 textStream, readerLocked, hooks, received>>
  /\ UNCHANGED wireFrames
  /\ UNCHANGED others

\* ------------------------------------------------------------ specification
Next ==
  \/ OpenAIRead
  \/ OpenAIReadDone
  \/ OpenAIReadFail
  \/ OpenAIAfterCatch
  \/ OpenAIProcessLine
  \/ OpenAIAfterOnMessage
  \/ OpenAIAfterOnError
  \/ OpenAIEnqueuePass
  \/ AnthropicRead
  \/ AnthropicReadDone
  \/ AnthropicReadFail
  \/ AnthropicProcessEvent
  \/ AnthropicAfterOnMessage
  \/ AnthropicAfterOnError
  \/ AnthropicAfterErrorEvent
  \/ AnthropicAfterEvents
  \/ AnthropicAfterCatch
  \/ ConsumerRead
  \/ ConsumerCancel
  \/ CallFinalResponse
  \/ CallUsage
  \/ CallStopReason

Spec == Init /\ [][Next]_vars

\* ------------------------------------------- what the wire said, by frame
\* The claims compare the aggregate with what the received frames carried.
TextOf(f) ==
  IF provider = "openai" THEN f.content
  ELSE IF f.event = "content_block_delta" /\ f.delta_type = "text_delta" THEN f.text
  ELSE << >>

StopOf(f) ==
  IF provider = "openai" THEN f.finish_reason
  ELSE IF f.event = "message_delta" THEN f.stop_reason ELSE Null

InputOf(f) ==
  IF provider = "openai" THEN f.usage.prompt_tokens
  ELSE IF f.event = "message_start" THEN f.input_tokens ELSE Absent

OutputOf(f) ==
  IF provider = "openai" THEN f.usage.completion_tokens
  ELSE IF f.event = "message_delta" THEN f.output_tokens ELSE Absent

\* the tool-call events of one frame: [index, id, name, fragment]
ToolEvent(index, id, name, fragment) ==
  [index |-> index, id |-> id, name |-> name, fragment |-> fragment]

ToolEventsOfFrame(f) ==
  IF provider = "openai"
  THEN [k \in 1..Len(f.tool_calls) |->
          ToolEvent(f.tool_calls[k].index, f.tool_calls[k].id,
                    f.tool_calls[k].name, f.tool_calls[k].arguments)]
  ELSE IF f.event = "content_block_start" /\ f.tool_id # Undefined
  THEN <<ToolEvent(f.index, f.tool_id, f.tool_name, << >>)>>
  ELSE IF f.event = "content_block_delta" /\ f.delta_type = "input_json_delta"
  THEN <<ToolEvent(f.index, Undefined, << >>, f.partial_json)>>
  ELSE << >>

RECURSIVE ToolEventsOf(_)
ToolEventsOf(fs) ==
  IF fs = << >> THEN << >>
  ELSE ToolEventsOfFrame(Head(fs)) \o ToolEventsOf(Tail(fs))

ToolEvents == ToolEventsOf(received)

IndexesSeen == {ToolEvents[k].index : k \in 1..Len(ToolEvents)}

\* the argument fragments addressed to index i, concatenated in arrival order
FragmentsFor(i) ==
  LET mine == SelectSeq(ToolEvents, LAMBDA e : e.index = i)
  IN  Concat([k \in 1..Len(mine) |-> mine[k].fragment])

\* the indexes in the order in which they first appear
RECURSIVE FirstAppearances(_, _)
FirstAppearances(es, seen) ==
  IF es = << >> THEN << >>
  ELSE IF Head(es).index \in seen THEN FirstAppearances(Tail(es), seen)
  ELSE <<Head(es).index>> \o FirstAppearances(Tail(es), seen \cup {Head(es).index})

IndexOrder == FirstAppearances(ToolEvents, {})

\* the text deltas received, in arrival order
ReceivedDeltas ==
  SelectSeq([k \in 1..Len(received) |-> TextOf(received[k])], LAMBDA t : t # << >>)

ReceivedText == Concat(ReceivedDeltas)

\* JSON over the tokens "{", "k", "}": "{}" and "{k}" are the valid documents
JsonValid(s) ==
  /\ Len(s) \in {2, 3}
  /\ s[1] = "{" /\ s[Len(s)] = "}"
  /\ \A k \in 2..(Len(s) - 1) : s[k] = "k"

\* the parsed value of a valid document: its set of members
JsonParse(s) == {s[k] : k \in 2..(Len(s) - 1)}

\* ----------------------------------------------- what the caller is given
\* the text of a final message
MessageText(m) ==
  IF provider = "openai" THEN m.content
  ELSE Concat([k \in 1..Len(m.content) |-> m.content[k].text])

\* the tool calls of a final message
MessageToolCalls(m) ==
  IF provider = "openai" THEN m.toolCalls
  ELSE SelectSeq(m.content, LAMBDA part : part.type = "tool_call")

AccessorNow(a) ==
  CASE a = "finalResponse" -> FinalResponseNow
    [] a = "usage" -> UsageNow
    [] a = "stopReason" -> StopReasonNow

AggInput == IF provider = "openai" THEN finalUsage.inputTokens ELSE currentUsage.inputTokens
AggOutput == IF provider = "openai" THEN finalUsage.outputTokens ELSE currentUsage.outputTokens

\* ------------------------------------------------------------------ claims
LoopEnded == pc = "done"

\* C1: for either provider, with or without an onMessage hook, once the read
\* loop has ended the text of the final message (given to onFinish and
\* returned by finalResponse()) is the concatenation, in arrival order, of
\* the text deltas received.
C1_FinalTextIsConcatenation ==
  LoopEnded =>
    /\ \A k \in 1..Len(onFinishCalls) :
         MessageText(onFinishCalls[k].finalResponse) = ReceivedText
    /\ MessageText(FinalResponseNow) = ReceivedText

\* C2: when the consumer of textStream has seen it end (without cancelling
\* it), it has been handed exactly the text deltas received, each once and in
\* arrival order.
C2_LiveSequenceDeliversDeltas ==
  textStream.ended \in {"done", "error"} => textStream.delivered = ReceivedDeltas

\* C3: a tool call announced with an id and a name whose argument fragments
\* concatenate to valid JSON is in the final message with that id, that name
\* and an input equal to the parsed JSON.
C3_ToolCallInputIsParsedJson ==
  LoopEnded =>
    \A k \in 1..Len(onFinishCalls) :
      \A e \in {ToolEvents[j] : j \in 1..Len(ToolEvents)} :
        (e.id # Undefined /\ e.name # << >> /\ JsonValid(FragmentsFor(e.index))) =>
          \E t \in 1..Len(MessageToolCalls(onFinishCalls[k].finalResponse)) :
            LET tc == MessageToolCalls(onFinishCalls[k].finalResponse)[t]
            IN  /\ tc.id = e.id
                /\ tc.name = e.name
                /\ "input" \in DOMAIN tc
                /\ tc.input = JsonParse(FragmentsFor(e.index))

\* no received frame carries a text increment next to its tool-call deltas
NoMixedFrame ==
  \A k \in 1..Len(received) :
    ~(received[k].content # << >> /\ received[k].tool_calls # << >>)

\* C4: builders are keyed by the stream index: where the builders are fed
\* (OpenAI with onMessage, frames carrying tool-call deltas without text),
\* every index seen has exactly one builder, and its arguments are the
\* fragments addressed to that index, in arrival order, whatever the order in
\* which the indexes first appear.
C4_BuildersKeyedByIndex ==
  (LoopEnded /\ provider = "openai" /\ hasOnMessage /\ NoMixedFrame) =>
    /\ Len(aggregatedToolCalls) = Len(IndexOrder)
    /\ \A k \in 1..Len(IndexOrder) :
         aggregatedToolCalls[k].arguments = FragmentsFor(IndexOrder[k])

\* C5: when frames for an index that already has a builder bring an id or a
\* name the builder lacks, the field is in the final tool call and the
\* fragments accumulated are kept (OpenAI with onMessage, indexes appearing
\* in order 0, 1, ...).
C5_LateFieldsAreMerged ==
  (/\ LoopEnded /\ provider = "openai" /\ hasOnMessage /\ NoMixedFrame
   /\ \A k \in 1..Len(IndexOrder) : IndexOrder[k] = k - 1
   /\ Len(aggregatedToolCalls) = Len(IndexOrder)) =>
    \A k \in 1..Len(IndexOrder) :
      LET mine == SelectSeq(ToolEvents, LAMBDA e : e.index = IndexOrder[k])
          b == aggregatedToolCalls[k]
      IN  /\ (\E j \in 1..Len(mine) : mine[j].id # Undefined) => b.id # Undefined
          /\ (\E j \in 1..Len(mine) : mine[j].name # << >>) => b.name # << >>
          /\ b.arguments = FragmentsFor(IndexOrder[k])

\* the stop reasons received, in arrival order
ReceivedStops ==
  SelectSeq([k \in 1..Len(received) |-> StopOf(received[k])], LAMBDA r : r # Null)

\* C6: the final stop reason (onFinish and stopReason()) is the first stop
\* reason received: a later frame does not change it.
C6_FirstStopReasonWins ==
  (LoopEnded /\ ReceivedStops # << >>) =>
    /\ StopReasonNow = ReceivedStops[1]
    /\ \A k \in 1..Len(onFinishCalls) : onFinishCalls[k].stopReason = ReceivedStops[1]

\* the input-token counts the frames reported, in arrival order
ReportedInputs ==
  SelectSeq([k \in 1..Len(received) |-> InputOf(received[k])], LAMBDA n : n # Absent)

\* C7: after any frame sequence the aggregated inputTokens is the last
\* input-token value a frame reported; a frame with only output tokens does
\* not change it.
C7_InputTokensIsLastReported ==
  (LoopEnded /\ ReportedInputs # << >>) =>
    AggInput = ReportedInputs[Len(ReportedInputs)]

\* C8: a usage field changes only in a step that applies a frame carrying
\* that field; a frame that omits it leaves the prior value.
C8_UsageKeptWhenOmitted ==
  [][/\ AggInput' # AggInput =>
          (idx \in 1..Len(chunk) /\ InputOf(chunk[idx]) # Absent)
     /\ AggOutput' # AggOutput =>
          (idx \in 1..Len(chunk) /\ OutputOf(chunk[idx]) # Absent)]_vars

\* C9: the totalTokens of the final usage (onFinish and usage()) is
\* inputTokens + outputTokens of that usage.
C9_TotalIsInputPlusOutput ==
  LoopEnded =>
    /\ UsageNow.totalTokens = UsageNow.inputTokens + UsageNow.outputTokens
    /\ \A k \in 1..Len(onFinishCalls) :
         onFinishCalls[k].usage.totalTokens =
           onFinishCalls[k].usage.inputTokens + onFinishCalls[k].usage.outputTokens

\* C10: an accessor resolves only after the read loop has ended, so what it
\* resolved with is what the accessor gives for the final aggregate.
C10_AccessorsResolveWithFinalAggregate ==
  LoopEnded =>
    \A k \in 1..Len(accessorCalls) :
      accessorCalls[k].early =>
        accessorCalls[k].value = AccessorNow(accessorCalls[k].accessor)

\* ------------------------------------------------------- claims C11 to C20
Count(seq, x) == Cardinality({k \in 1..Len(seq) : seq[k] = x})

\* reader.read() has rejected
TransportFailed == Count(onErrorCalls, "transport") > 0

\* processChunk over the frames fs, from the aggregate a (openai.ts)
OpenAIApplyFrame(a, f) ==
  [content |-> IF hasOnMessage /\ f.content # << >>
               THEN a.content \o f.content ELSE a.content,
   toolCalls |-> IF hasOnMessage /\ f.content = << >> /\ f.tool_calls # << >>
                 THEN ApplyToolCallDeltas(a.toolCalls, f.tool_calls)
                 ELSE a.toolCalls,
   stopReason |-> IF f.finish_reason # Null THEN f.finish_reason ELSE a.stopReason,
   usage |-> OpenAIUsageAfter(a.usage, f)]

RECURSIVE OpenAIAggregateOf(_, _)
OpenAIAggregateOf(a, fs) ==
  IF fs = << >> THEN a
  ELSE OpenAIAggregateOf(OpenAIApplyFrame(a, Head(fs)), Tail(fs))

\* what onFinish is given when the source ends cleanly after the frames fs
OpenAICleanFinishReport(fs) ==
  LET a == OpenAIAggregateOf(
             [content |-> << >>, toolCalls |-> << >>, stopReason |-> Null,
              usage |-> [inputTokens |-> 0, outputTokens |-> 0, totalTokens |-> 0]],
             fs)
  IN  [finalResponse |-> [role |-> "assistant", content |-> a.content,
                          toolCalls |-> a.toolCalls],
       usage |-> a.usage, stopReason |-> a.stopReason]

\* C11: when the transport read fails after text deltas, finalResponse()
\* exposes the text aggregated before the failure, and what onFinish and the
\* accessors report differs from the report of a clean finish that received
\* the same frames (the result is marked incomplete).
C11_FailureIsMarkedIncomplete ==
  (LoopEnded /\ provider = "openai" /\ TransportFailed /\ ReceivedDeltas # << >>) =>
    /\ MessageText(FinalResponseNow) =
         OpenAICleanFinishReport(received).finalResponse.content
    /\ \A k \in 1..Len(onFinishCalls) :
         onFinishCalls[k] # OpenAICleanFinishReport(received)
    /\ [finalResponse |-> FinalResponseNow, usage |-> UsageNow,
        stopReason |-> StopReasonNow] # OpenAICleanFinishReport(received)

\* C12: when reader.read() rejects, onError is invoked for it, once, and the
\* live sequence (unless its consumer had cancelled it) is errored, not closed.
C12_ReadFailureErrorsStreamOnce ==
  /\ [](/\ Count(onErrorCalls, "transport") <= 1
        /\ (TransportFailed /\ ~textStream.cancelled) => textStream.state = "errored"
        /\ (TransportFailed /\ textStream.ended \in {"done", "error"}) =>
              textStream.ended = "error")
  /\ [][(pc = "read" /\ pc' = "catch") =>
          onErrorCalls' = Append(onErrorCalls, "transport")]_vars

\* C12 witness: the read failed after frames had been received, and the
\* consumer has seen the live sequence end with the error
C12_Witness ==
  /\ LoopEnded /\ TransportFailed /\ received # << >>
  /\ textStream.state = "errored" /\ textStream.ended = "error"

\* an in-band `error` event has been taken from the source (anthropic.ts)
ErrorEventReceived ==
  provider = "anthropic" /\ \E k \in 1..Len(received) : received[k].event = "error"

\* C13: after an in-band error event, onError has been invoked once with the
\* provider's payload, the live sequence is errored, the error event is the
\* last frame processed, and onFinish is not invoked for the call.
C13_ErrorEventSkipsOnFinish ==
  (LoopEnded /\ ErrorEventReceived) =>
    /\ Count(onErrorCalls, "provider") = 1
    /\ ~textStream.cancelled => textStream.state = "errored"
    /\ received[Len(received)].event = "error"
    /\ onFinishCalls = << >>

\* the frame the loop stands at has a payload JSON.parse rejects
BadFrameAt ==
  /\ idx \in 1..Len(chunk)
  /\ IF provider = "openai" THEN chunk[idx].kind \in {"bad", "head"}
     ELSE chunk[idx].event # "" /\ ~chunk[idx].ok

\* C14: a frame whose payload is not valid JSON is not fatal: the step that
\* takes it invokes onError once and changes nothing else (aggregate, live
\* sequence, other hooks), and when onError has returned the loop goes on
\* with the next frame of the chunk from that unchanged state.
C14_BadFrameIsNotFatal ==
  [][/\ (pc \in {"line", "event"} /\ BadFrameAt) =>
          /\ onErrorCalls' = Append(onErrorCalls, "frame")
          /\ pc' = "errhook" /\ idx' = idx
          /\ UNCHANGED <<openaiAgg, anthropicAgg, finalMessageContentBlocks,
                         textStream, readerLocked, onMessageCalls,
                         onFinishCalls, received>>
     /\ (pc = "errhook" /\ pc' # "errhook" /\ BadFrameAt) =>
          /\ UNCHANGED <<openaiAgg, anthropicAgg, finalMessageContentBlocks,
                         textStream, readerLocked, hooks, received>>
          /\ IF idx < Len(chunk)
             THEN idx' = idx + 1 /\ pc' \in {"line", "event"}
             ELSE idx' = idx /\ pc' \in {"enqueue", "afterloop"}]_vars

\* C14 witness: a chunk's first line was rejected by JSON.parse, onError was
\* invoked once, and the text delta on the next line was processed and
\* emitted on the live sequence
C14_Witness ==
  /\ provider = "openai" /\ pc = "read" /\ Len(chunk) >= 2
  /\ chunk[1].kind = "bad"
  /\ chunk[2].kind = "json" /\ chunk[2].content # << >>
  /\ onErrorCalls = <<"frame">>
  /\ received = <<chunk[2]>>
  /\ textStream.state = "readable"
  /\ textStream.delivered \o textStream.queue = <<chunk[2].content>>

\* C15: decoding does not depend on where the byte stream is cut into
\* chunks: whenever the loop waits for the next chunk and no frame is cut
\* open, the frames decoded so far are the frames the bytes have carried.
C15_DecodingIgnoresChunkCuts ==
  (pc = "read" /\ ~EndsInHead(provider, chunk)) => received = wireFrames

\* the `data: <json>` lines of fs
JsonFrames(fs) == SelectSeq(fs, LAMBDA f : f.kind = "json")

\* C16: once `data: [DONE]` is seen (openai.ts), no frame after it is
\* classified or aggregated, onError is not invoked for it, the loop does
\* not read again, and the live sequence closes normally.
C16_DoneEndsTheStream ==
  (provider = "openai" /\ HasDone(chunk)) =>
    /\ pc # "read"
    /\ pc \in {"catch", "done"} =>
         /\ Len(received) + Len(JsonFrames(chunk)) =
              Len(wireFrames) + Len(JsonFrames(BeforeDone(chunk)))
         /\ Count(onErrorCalls, "loop") = 0
         /\ Count(onErrorCalls, "transport") = 0
         /\ textStream.state = "closed" \/ textStream.closeRequested

\* a message_stop event has been taken from the source (anthropic.ts)
MessageStopReceived ==
  provider = "anthropic" /\
    \E k \in 1..Len(received) : received[k].event = "message_stop"

\* C17: after a message_stop event no later frame is processed, the loop
\* does not read again, the live sequence closes normally (it is not
\* errored, and onError is not invoked by the loop), and onFinish is invoked.
C17_MessageStopCompletes ==
  MessageStopReceived =>
    /\ received[Len(received)].event = "message_stop"
    /\ pc # "read"
    /\ LoopEnded =>
         /\ textStream.state # "errored"
         /\ textStream.state = "closed" \/ textStream.closeRequested
         /\ Count(onErrorCalls, "loop") = 0
         /\ Len(onFinishCalls) = 1

\* C18: the live sequence is finite: when the read loop has ended, the
\* stream is closed or errored, or closes as soon as its unread items have
\* been read, however many items are unread.
C18_LiveSequenceTerminates ==
  LoopEnded =>
    \/ textStream.state \in {"closed", "errored"}
    \/ textStream.closeRequested

\* C19: the read loop suspends when the consumer does not read: the items
\* emitted and not yet consumed never exceed the stream's high-water mark.
C19_BackpressureBoundsTheQueue ==
  Len(textStream.queue) <= HighWaterMark

\* C20: after the consumer has cancelled the live sequence the loop issues
\* no further read on the source, the live sequence is not errored, and what
\* onFinish is given differs from the report of a clean finish that received
\* the same frames (the result is marked incomplete).
C20_CancellationStopsTheLoop ==
  [][textStream.cancelled =>
       /\ ~(pc # "read" /\ pc' = "read")
       /\ textStream.state # "errored" => textStream'.state # "errored"
       /\ (pc' = "done" /\ provider = "openai") =>
            \A k \in 1..Len(onFinishCalls') :
              onFinishCalls'[k] # OpenAICleanFinishReport(received')]_vars

\* ------------------------------------------------------- claims C21 to C30
\* C21: the lock getReader() took is held while the read loop runs and is
\* released by the step that ends the loop, on every exit path (source
\* exhausted, [DONE], error event, read failure, consumer cancelled); the
\* loop ends once, so the lock is released once.
C21_ReaderLockReleasedOnce ==
  /\ [](readerLocked <=> ~LoopEnded)
  /\ [][/\ (pc # "done" /\ pc' = "done") => (readerLocked /\ ~readerLocked')
        /\ pc = "done" => (pc' = "done" /\ readerLocked' = readerLocked)]_vars

\* C21 witness: the loop has ended through the catch block of a failed read
\* after the consumer had cancelled, and the lock is released
C21_Witness ==
  LoopEnded /\ ~readerLocked /\ TransportFailed /\ textStream.cancelled

\* C23: the read loop suspends only while it waits for the next chunk, so an
\* accessor never resolves while the loop stands in onMessage with frames of
\* the current chunk still to be applied.
C23_NoSuspensionInsideAChunk ==
  [][accessorCalls' # accessorCalls =>
       ~(pc = "hook" /\ idx < Len(chunk))]_vars

\* the event loop of AnthropicProvider.request over the frames fs (anthropic.ts)
AnthropicApplyFrame(a, f) ==
  [text |-> IF f.event = "content_block_delta" /\ f.delta_type = "text_delta"
            THEN a.text \o f.text ELSE a.text,
   inputTokens |-> IF f.event = "message_start"
                   THEN OrElse(f.input_tokens, 0) ELSE a.inputTokens,
   outputTokens |-> IF f.event = "message_delta"
                    THEN OrElse(f.output_tokens, a.outputTokens)
                    ELSE a.outputTokens,
   stopReason |-> IF f.event = "message_delta" /\ f.stop_reason # Null
                  THEN f.stop_reason ELSE a.stopReason]

RECURSIVE AnthropicAggregateOf(_, _)
AnthropicAggregateOf(a, fs) ==
  IF fs = << >> THEN a
  ELSE AnthropicAggregateOf(AnthropicApplyFrame(a, Head(fs)), Tail(fs))

\* what onFinish is given when the loop ends after the frames fs
AnthropicFinishReport(fs) ==
  LET a == AnthropicAggregateOf(
             [text |-> << >>, inputTokens |-> 0, outputTokens |-> 0,
              stopReason |-> Null], fs)
  IN  [finalResponse |-> [role |-> "assistant", content |-> <<TextPart(a.text)>>],
       usage |-> [inputTokens |-> a.inputTokens, outputTokens |-> a.outputTokens,
                  totalTokens |-> a.inputTokens + a.outputTokens],
       stopReason |-> a.stopReason]

\* the final usage of a run that receives the frames fs
FinalUsageOf(fs) ==
  IF provider = "openai" THEN OpenAICleanFinishReport(fs).usage
  ELSE AnthropicFinishReport(fs).usage

\* the frame f reporting n (or, with Absent, nothing) as its input / output count
WithInput(f, n) ==
  IF provider = "openai" THEN [f EXCEPT !.usage.prompt_tokens = n]
  ELSE [f EXCEPT !.input_tokens = n]

WithOutput(f, n) ==
  IF provider = "openai" THEN [f EXCEPT !.usage.completion_tokens = n]
  ELSE [f EXCEPT !.output_tokens = n]

\* C24: a usage field reported as 0 is distinguishable from one never
\* reported: the final usage of the run differs from the final usage of the
\* run whose frames are the same except that the frame reporting 0 carries no
\* count for that field.
C24_ZeroDiffersFromUnreported ==
  LoopEnded =>
    \A k \in 1..Len(received) :
      /\ InputOf(received[k]) = 0 =>
           UsageNow # FinalUsageOf([received EXCEPT ![k] = WithInput(@, Absent)])
      /\ OutputOf(received[k]) = 0 =>
           UsageNow # FinalUsageOf([received EXCEPT ![k] = WithOutput(@, Absent)])

\* an aggregated tool call whose arguments are not valid JSON
MalformedToolCall ==
  \E k \in 1..Len(aggregatedToolCalls) : ~JsonValid(aggregatedToolCalls[k].arguments)

\* C25: a tool call whose aggregated arguments are not valid JSON does not
\* abort finalization (openai.ts): onFinish is invoked once with the whole
\* aggregate of the received frames (the text and every tool call), no
\* onError is invoked for it and the live sequence is not errored by it.
C25_MalformedToolCallIsIsolated ==
  (LoopEnded /\ provider = "openai" /\ MalformedToolCall) =>
    /\ onFinishCalls = <<OpenAICleanFinishReport(received)>>
    /\ FinalResponseNow = OpenAICleanFinishReport(received).finalResponse
    /\ Len(onErrorCalls) = Count(onErrorCalls, "transport") + Count(onErrorCalls, "loop")
    /\ Count(onErrorCalls, "loop") > 0 => textStream.cancelled
    /\ textStream.state = "errored" => TransportFailed

\* C25 witness: the call ended with one tool call whose arguments do not
\* parse and another whose arguments do, both in the final message
C25_Witness ==
  /\ LoopEnded /\ provider = "openai"
  /\ Len(aggregatedToolCalls) = 2
  /\ ~JsonValid(aggregatedToolCalls[1].arguments)
  /\ JsonValid(aggregatedToolCalls[2].arguments)
  /\ Len(onFinishCalls) = 1
  /\ onFinishCalls[1].finalResponse.toolCalls = aggregatedToolCalls

\* a parsed frame that is no text, tool call, usage, stop signal or error
Unrecognized(f) ==
  IF provider = "openai"
  THEN /\ f.kind = "json" /\ f.content = << >> /\ f.tool_calls = << >>
       /\ f.finish_reason = Null /\ f.usage = NoUsage
  ELSE /\ f.ok
       /\ f.event \notin {"", "message_start", "content_block_start",
                          "content_block_delta", "message_delta",
                          "message_stop", "error"}

\* C26: the step that takes an unrecognized frame leaves the aggregate
\* unchanged and, where onMessage is registered, invokes it with a chunk of
\* type 'other'.
C26_UnrecognizedFramesAreForwarded ==
  [][(pc \in {"line", "event"} /\ idx \in 1..Len(chunk) /\ Unrecognized(chunk[idx])) =>
       /\ UNCHANGED <<openaiAgg, anthropicAgg>>
       /\ hasOnMessage => onMessageCalls' = Append(onMessageCalls, "other")]_vars

\* a fatal error has been reported: a failed read or an in-band error event
FatalReported ==
  Count(onErrorCalls, "transport") + Count(onErrorCalls, "provider") > 0

\* C28: after a fatal error the loop reads no further chunk and takes no
\* further frame, the aggregate does not change, nothing more is emitted on
\* the live sequence, and no second fatal termination is reported.
C28_FatalErrorTerminatesOnce ==
  [][FatalReported =>
       /\ frames' = frames /\ received' = received /\ pc' # "read"
       /\ UNCHANGED <<openaiAgg, aggregatedTextContent, currentStopReason>>
       /\ currentUsage'.inputTokens = currentUsage.inputTokens
       /\ currentUsage'.outputTokens = currentUsage.outputTokens
       /\ Len(textStream'.delivered) + Len(textStream'.queue) <=
            Len(textStream.delivered) + Len(textStream.queue)
       /\ onErrorCalls' = onErrorCalls]_vars

\* C28 witness: an in-band error event ended the call while a later event of
\* the same chunk was left unprocessed
C28_Witness ==
  /\ LoopEnded /\ ErrorEventReceived
  /\ idx < Len(chunk)
  /\ textStream.state = "errored"
  /\ onErrorCalls = <<"provider">>

\* C29: when one frame brings a new tool call's name and first argument
\* fragment (OpenAI with onMessage), the aggregated tool call has that name
\* and its arguments start with that fragment, also when the frame carries a
\* text increment.
C29_NameAndFragmentInOneFrame ==
  (LoopEnded /\ provider = "openai" /\ hasOnMessage /\ received # << >>) =>
    \A j \in 1..Len(received[1].tool_calls) :
      LET d == received[1].tool_calls[j]
      IN  (d.name # << >> /\ d.arguments # << >> /\ d.index = j - 1) =>
            /\ Len(aggregatedToolCalls) >= j
            /\ SubSeq(aggregatedToolCalls[j].name, 1, Len(d.name)) = d.name
            /\ SubSeq(aggregatedToolCalls[j].arguments, 1, Len(d.arguments)) =
                 d.arguments

\* ------------------------------------------------- two concurrent calls
\* Two request() calls run their read loops on one event loop; a step is one
\* call taking its next frame, or one call's finally block.
MaxCallFrames == 2

Calls == {1, 2}

\* the frames a concurrent call's source carries
CallVocabulary(prov) ==
  IF prov = "openai"
  THEN {OText(<<"a">>), OText(<<"b">>), OFinish("stop"), OUsage(2, 1, 5),
        OTool(ToolCallDelta(0, "id1", <<"f">>, <<"{">>))}
  ELSE {AText(<<"a">>), AText(<<"b">>), AMessageStart(1),
        AMessageDelta(2, "end_turn")}

\* the aggregate variables as request() declares them
StartAggregate(prov) ==
  IF prov = "openai"
  THEN [content |-> << >>, toolCalls |-> << >>, stopReason |-> Null,
        usage |-> [inputTokens |-> 0, outputTokens |-> 0, totalTokens |-> 0]]
  ELSE [text |-> << >>, inputTokens |-> 0, outputTokens |-> 0, stopReason |-> Null]

ApplyFrame(prov, a, f) ==
  IF prov = "openai" THEN OpenAIApplyFrame(a, f) ELSE AnthropicApplyFrame(a, f)

\* what finally hands to onFinish from the aggregate a
ReportOf(prov, a) ==
  IF prov = "openai"
  THEN [finalResponse |-> [role |-> "assistant", content |-> a.content,
                           toolCalls |-> a.toolCalls],
        usage |-> a.usage, stopReason |-> a.stopReason]
  ELSE [finalResponse |-> [role |-> "assistant", content |-> <<TextPart(a.text)>>],
        usage |-> [inputTokens |-> a.inputTokens, outputTokens |-> a.outputTokens,
                   totalTokens |-> a.inputTokens + a.outputTokens],
        stopReason |-> a.stopReason]

\* what the call would report had it run alone over the frames fs
AloneReport(prov, fs) ==
  IF prov = "openai" THEN OpenAICleanFinishReport(fs) ELSE AnthropicFinishReport(fs)

\* aggregate variables kept on the provider instance: calls on one provider
\* use the same ones
SlotOnInstance(c) ==
  CHOOSE d \in Calls :
    /\ calls[d].provider = calls[c].provider
    /\ \A e \in Calls : calls[e].provider = calls[c].provider => d <= e

\* the aggregate variables call c writes: `let` bindings of its own request()
Slot(c) == c

InitTwoCalls ==
  /\ provider = "openai" /\ family = "text"
  /\ hasOnMessage \in BOOLEAN
  /\ StreamStart
  /\ calls \in [Calls -> UNION {[provider : {prov},
                                  source : SeqsUpTo(CallVocabulary(prov), MaxCallFrames),
                                  received : {<< >>}] : prov \in {"openai", "anthropic"}}]
  /\ aggregates = [c \in Calls |-> StartAggregate(calls[c].provider)]
  /\ reports = [c \in Calls |-> << >>]
  /\ NoRequest /\ NoSingleShot /\ NoWriter

\* call c's loop takes the next frame of its source
CallTakeFrame(c) ==
  /\ reports[c] = << >>
  /\ calls[c].source # << >>
  /\ LET f == Head(calls[c].source)
     IN  /\ aggregates' = [aggregates EXCEPT
                             ![Slot(c)] = ApplyFrame(calls[c].provider, @, f)]
         /\ calls' = [calls EXCEPT ![c].source = Tail(@),
                                   ![c].received = Append(@, f)]
  /\ UNCHANGED <<streamVars, writerVars, reports, requestVars, singleVars>>

\* call c's source has ended: finally hands the aggregate to onFinish
CallFinally(c) ==
  /\ reports[c] = << >>
  /\ calls[c].source = << >>
  /\ reports' = [reports EXCEPT
                   ![c] = <<ReportOf(calls[c].provider, aggregates[Slot(c)])>>]
  /\ UNCHANGED <<streamVars, writerVars, calls, aggregates, requestVars, singleVars>>

NextTwoCalls ==
  \/ \E c \in Calls : CallTakeFrame(c)
  \/ \E c \in Calls : CallFinally(c)

SpecTwoCalls == InitTwoCalls /\ [][NextTwoCalls]_vars

\* C22: under every interleaving of the frames of two concurrent calls, what
\* each call reports when it ends (final message, usage, stop reason) is what
\* it would have reported running alone over the frames it received.
C22_ConcurrentCallsShareNoState ==
  \A c \in DOMAIN reports :
    \A k \in 1..Len(reports[c]) :
      reports[c][k] = AloneReport(calls[c].provider, calls[c].received)

\* C22 witness: two calls on the same provider have both ended after their
\* frames were interleaved, each with text of its own
C22_Witness ==
  /\ calls # << >>
  /\ calls[1].provider = calls[2].provider
  /\ Len(reports[1]) = 1 /\ Len(reports[2]) = 1
  /\ Len(calls[1].received) = 2 /\ Len(calls[2].received) = 2
  /\ reports[1][1].finalResponse # reports[2][1].finalResponse
  /\ reports[1][1].usage # reports[2][1].usage

\* ------------------------------------- generate() before any stream data
\* generate() of index.ts around provider.request(), up to the point where
\* request() returns its result or fails. onError is registered.
Failures == {"none", "mapping", "onBeforeCall", "fetch", "status"}

\* { response: null, usage: null, stopReason: 'error' }
ErrorResult == [response |-> Null, usage |-> Null, stopReason |-> "error"]

\* the result object request() returns when nothing fails: the message of the
\* response, or the live sequence with its accessors
RequestResult ==
  IF stream = "true"
  THEN [response |-> "textStream", usage |-> "accessor", stopReason |-> "accessor"]
  ELSE [response |-> "message", usage |-> "usage", stopReason |-> "stop"]

\* !stream: false and undefined both select the non-streaming path
NotStream == stream # "true"

InitRequest ==
  /\ provider \in {"openai", "anthropic"}
  /\ hasOnMessage \in BOOLEAN
  /\ family = "text"
  /\ StreamStart
  /\ NoTwoCalls /\ NoSingleShot /\ NoWriter
  /\ stream \in {"true", "false", Undefined}
  /\ hasOnBeforeCall \in BOOLEAN
  /\ failure \in Failures
  /\ failure = "onBeforeCall" => hasOnBeforeCall
  /\ requestPc = "map"
  /\ requestErrors = << >>
  /\ requestLog = << >>
  /\ generateResult = Pending

\* request(): the messages are mapped; a failure is reported and thrown
\* outside the main try block
RequestMapMessages ==
  /\ requestPc = "map"
  /\ IF failure = "mapping"
     THEN /\ requestErrors' = Append(requestErrors, "mapping")
          /\ requestPc' = "generateCatch"
     ELSE /\ requestErrors' = requestErrors
          /\ requestPc' = "beforeCall"
  /\ UNCHANGED <<streamVars, writerVars, twoCallsVars, stream, hasOnBeforeCall, failure,
                 requestLog, generateResult, singleVars>>

\* an onBeforeCall block that reports the failure and goes on to the request
RequestOnBeforeCallGoesOn ==
  /\ requestPc = "beforeCall"
  /\ requestErrors' = IF hasOnBeforeCall /\ failure = "onBeforeCall"
                      THEN Append(requestErrors, "onBeforeCall") ELSE requestErrors
  /\ requestPc' = "fetch"
  /\ requestLog' = IF hasOnBeforeCall THEN Append(requestLog, "onBeforeCall")
                   ELSE requestLog
  /\ UNCHANGED <<streamVars, writerVars, twoCallsVars, stream, hasOnBeforeCall, failure,
                 generateResult, singleVars>>

\* request(): onBeforeCall, when registered; its failure is reported and
\* rethrown outside the main try block
RequestOnBeforeCall ==
  /\ requestPc = "beforeCall"
  /\ IF hasOnBeforeCall /\ failure = "onBeforeCall"
     THEN /\ requestErrors' = Append(requestErrors, "onBeforeCall")
          /\ requestPc' = "generateCatch"
     ELSE /\ requestErrors' = requestErrors
          /\ requestPc' = "fetch"
  /\ requestLog' = IF hasOnBeforeCall THEN Append(requestLog, "onBeforeCall")
                   ELSE requestLog
  /\ UNCHANGED <<streamVars, writerVars, twoCallsVars, stream, hasOnBeforeCall, failure,
                 generateResult, singleVars>>

\* request(): await fetch(...) inside the main try block
RequestFetch ==
  /\ requestPc = "fetch"
  /\ requestPc' = IF failure = "fetch" THEN "requestCatch" ELSE "status"
  /\ requestLog' = Append(requestLog, "fetch")
  /\ UNCHANGED <<streamVars, writerVars, twoCallsVars, stream, hasOnBeforeCall, failure,
                 requestErrors, generateResult, singleVars>>

\* request(): the response status. Not OK: onError, then the error result
\* (non-streaming) or a throw (streaming). OK: the non-streaming path invokes
\* onMessage and onFinish and returns the message, the streaming path returns
\* the result whose read loop is the subject of Spec.
RequestStatus ==
  /\ requestPc = "status"
  /\ IF failure = "status"
     THEN /\ requestErrors' = Append(requestErrors, "status")
          /\ IF NotStream
             THEN requestPc' = "settled" /\ generateResult' = Fulfilled(ErrorResult)
             ELSE requestPc' = "requestCatch" /\ generateResult' = generateResult
     ELSE /\ requestErrors' = requestErrors
          /\ requestPc' = "settled"
          /\ generateResult' = Fulfilled(RequestResult)
  /\ requestLog' =
       IF failure # "status" /\ NotStream
       THEN requestLog \o (IF hasOnMessage THEN <<"onMessage">> ELSE << >>)
                       \o <<"onFinish">>
       ELSE requestLog
  /\ UNCHANGED <<streamVars, writerVars, twoCallsVars, stream, hasOnBeforeCall, failure,
                 singleVars>>

\* the catch block of request(): onError, then the error result or a rethrow
RequestCatch ==
  /\ requestPc = "requestCatch"
  /\ requestErrors' = Append(requestErrors, "catch")
  /\ IF NotStream
     THEN requestPc' = "settled" /\ generateResult' = Fulfilled(ErrorResult)
     ELSE requestPc' = "generateCatch" /\ generateResult' = generateResult
  /\ UNCHANGED <<streamVars, writerVars, twoCallsVars, stream, hasOnBeforeCall, failure,
                 requestLog, singleVars>>

\* a catch block of generate() that hands back the error result on every path
GenerateCatchAlwaysReturns ==
  /\ requestPc = "generateCatch"
  /\ requestErrors' = Append(requestErrors, "generate")
  /\ requestPc' = "settled"
  /\ generateResult' = Fulfilled(ErrorResult)
  /\ UNCHANGED <<streamVars, writerVars, twoCallsVars, stream, hasOnBeforeCall, failure,
                 requestLog, singleVars>>

\* the catch block of generate(): onError, then the error result or a rethrow
GenerateCatch ==
  /\ requestPc = "generateCatch"
  /\ requestErrors' = Append(requestErrors, "generate")
  /\ requestPc' = "settled"
  /\ generateResult' = IF NotStream THEN Fulfilled(ErrorResult)
                       ELSE Rejected(failure)
  /\ UNCHANGED <<streamVars, writerVars, twoCallsVars, stream, hasOnBeforeCall, failure,
                 requestLog, singleVars>>

NextRequest ==
  \/ RequestMapMessages
  \/ RequestOnBeforeCall
  \/ RequestFetch
  \/ RequestStatus
  \/ RequestCatch
  \/ GenerateCatch

SpecRequest == InitRequest /\ [][NextRequest]_vars

\* C27: when the call fails before any stream data (mapping, onBeforeCall,
\* fetch, response status), generate() with stream = true rejects with that
\* error, and with stream false or absent it is fulfilled with
\* {response: null, usage: null, stopReason: 'error'} and never rejects.
C27_PreStreamFailure ==
  (requestPc = "settled" /\ failure # "none") =>
    IF stream = "true"
    THEN generateResult = Rejected(failure)
    ELSE generateResult = Fulfilled(ErrorResult)

\* C27 witness: a streaming call whose response status is not OK has settled
\* through both catch blocks
C27_Witness ==
  /\ requestPc = "settled" /\ failure = "status" /\ stream = "true"
  /\ requestErrors = <<"status", "catch", "generate">>
  /\ generateResult = Rejected("status")

\* --------------------------------------------- the single-shot generate()
\* generate() of the single-shot API: one model.doGenerate call wrapped in
\* retry, and the result object built from what it resolves with.
MaxRetriesBound == 2

\* what one model.doGenerate call does: it resolves with a result or rejects
\* a tool call as the model returns it
ModelToolCall(id, name, args) ==
  [toolCallType |-> "function", toolCallId |-> id, toolName |-> name, args |-> args]

\* result.toolCalls: an optional array, << >> when the property is absent and
\* <<array>> when it is present (the array may be empty)
ModelToolCallLists ==
  LET c1 == ModelToolCall("call-1", "f", "{}")
      c2 == ModelToolCall("call-2", "g", "{k}")
  IN  {<< >>, << << >> >>, << <<c1>> >>, << <<c1, c2>> >>, << <<c2, c1>> >>}

DoGenerateOutcomes ==
  {[ok |-> TRUE, error |-> "none", text |-> t, finishReason |-> r,
    promptTokens |-> 1, completionTokens |-> 2, toolCalls |-> tcs] :
      t \in {"a", Undefined}, r \in {"stop", "tool-calls"}, tcs \in ModelToolCallLists}
  \cup {[ok |-> FALSE, error |-> e, text |-> Undefined, finishReason |-> Undefined,
          promptTokens |-> 0, completionTokens |-> 0, toolCalls |-> << >>] :
            e \in {"e1", "e2"}}

\* sequences over S of length n
RECURSIVE SeqsOfLen(_, _)
SeqsOfLen(S, n) ==
  IF n = 0 THEN {<< >>}
  ELSE {Append(q, x) : q \in SeqsOfLen(S, n - 1), x \in S}

\* x ?? y
Coalesce(x, y) == IF x = Undefined \/ x = Null THEN y ELSE x

\* calculateLanguageModelUsage: the total is the sum of the two counts
CalculateLanguageModelUsage(r) ==
  [promptTokens |-> r.promptTokens, completionTokens |-> r.completionTokens,
   totalTokens |-> r.promptTokens + r.completionTokens]

\* a mapping that keeps only the first tool call
ResultToolCallsFirstOnly(tcs) ==
  IF tcs = << >> \/ tcs[1] = << >> THEN tcs
  ELSE << <<[toolCallId |-> tcs[1][1].toolCallId, toolName |-> tcs[1][1].toolName,
             args |-> tcs[1][1].args]>> >>

\* result.toolCalls?.map(toolCall => ({toolCallId, toolName, args}))
ResultToolCalls(tcs) ==
  IF tcs = << >> THEN << >>
  ELSE <<[k \in 1..Len(tcs[1]) |->
            [toolCallId |-> tcs[1][k].toolCallId, toolName |-> tcs[1][k].toolName,
             args |-> tcs[1][k].args]]>>

\* retry: after a rejected attempt, another attempt is made while fewer than
\* maxRetries retries have been made
RetryAgain == attempt <= maxRetries

InitSingleShot ==
  /\ provider = "openai" /\ hasOnMessage = FALSE /\ family = "text"
  /\ StreamStart
  /\ NoTwoCalls /\ NoRequest /\ NoWriter
  /\ maxRetries \in 0..MaxRetriesBound
  /\ modelOutcomes \in SeqsOfLen(DoGenerateOutcomes, maxRetries + 1)
  /\ attempt = 0
  /\ singlePc = "doGenerate"
  /\ singleResult = Pending

\* retry calls model.doGenerate
SingleDoGenerate ==
  /\ singlePc = "doGenerate"
  /\ attempt' = attempt + 1
  /\ singlePc' = IF modelOutcomes[attempt + 1].ok THEN "return" ELSE "retry"
  /\ UNCHANGED <<streamVars, writerVars, twoCallsVars, requestVars, maxRetries, modelOutcomes,
                 singleResult>>

\* the attempt was rejected and retry makes another one
SingleRetry ==
  /\ singlePc = "retry" /\ RetryAgain
  /\ singlePc' = "doGenerate"
  /\ UNCHANGED <<streamVars, writerVars, twoCallsVars, requestVars, maxRetries, modelOutcomes,
                 attempt, singleResult>>

\* a generate() that catches the rejection and returns an empty result
SingleAwaitSwallows(e) ==
  Fulfilled([text |-> "", finishReason |-> "error",
             usage |-> [promptTokens |-> 0, completionTokens |-> 0, totalTokens |-> 0],
             toolCalls |-> << >>])

\* `await retry(...)` rejecting with e: no try/catch surrounds it, so the
\* promise of generate() rejects with e
SingleAwaitRejected(e) == Rejected(e)

\* retry gives up and rejects with the last attempt's error
SingleGiveUp ==
  /\ singlePc = "retry" /\ ~RetryAgain
  /\ singlePc' = "settled"
  /\ singleResult' = SingleAwaitRejected(modelOutcomes[attempt].error)
  /\ UNCHANGED <<streamVars, writerVars, twoCallsVars, requestVars, maxRetries, modelOutcomes,
                 attempt>>

\* the attempt resolved: generate() returns the result object
SingleReturn ==
  /\ singlePc = "return"
  /\ singlePc' = "settled"
  /\ LET result == modelOutcomes[attempt]
     IN  singleResult' = Fulfilled([text |-> Coalesce(result.text, ""),
                                    finishReason |-> result.finishReason,
                                    usage |-> CalculateLanguageModelUsage(result),
                                    toolCalls |-> ResultToolCalls(result.toolCalls)])
  /\ UNCHANGED <<streamVars, writerVars, twoCallsVars, requestVars, maxRetries, modelOutcomes,
                 attempt>>

NextSingleShot ==
  \/ SingleDoGenerate
  \/ SingleRetry
  \/ SingleGiveUp
  \/ SingleReturn

SpecSingleShot == InitSingleShot /\ [][NextSingleShot]_vars

\* C30: when the model call fails (the last doGenerate attempt rejects), the
\* single-shot generate() rejects with the model's error and is never
\* fulfilled with a result object.
C30_SingleShotRejectsWithModelError ==
  (singlePc = "settled" /\ attempt > 0 /\ ~modelOutcomes[attempt].ok) =>
    /\ singleResult.state = "rejected"
    /\ singleResult.error = modelOutcomes[attempt].error
    /\ singleResult.value = NoValue

\* C30 witness: every attempt allowed by maxRetries = 2 was rejected and
\* generate() has settled
C30_Witness ==
  /\ singlePc = "settled" /\ maxRetries = 2 /\ attempt = 3
  /\ \A k \in 1..3 : ~modelOutcomes[k].ok
  /\ singleResult = Rejected(modelOutcomes[3].error)

\* the single-shot generate() was fulfilled from the model result r
SingleReturned ==
  singlePc = "settled" /\ attempt > 0 /\ modelOutcomes[attempt].ok

\* C31: the result of the single-shot generate() has the model's tool calls
\* in the same number and order, each with the same toolCallId, toolName and
\* args; toolCalls is undefined when the model result has none; the finish
\* reason is the model's; text is '' when the model returned no text.
C31_SingleShotResultMapping ==
  SingleReturned =>
    LET r == modelOutcomes[attempt]
        v == singleResult.value
    IN  /\ singleResult.state = "fulfilled"
        /\ (r.toolCalls = << >>) <=> (v.toolCalls = << >>)
        /\ r.toolCalls # << >> =>
             /\ Len(v.toolCalls[1]) = Len(r.toolCalls[1])
             /\ \A k \in 1..Len(r.toolCalls[1]) :
                  /\ v.toolCalls[1][k].toolCallId = r.toolCalls[1][k].toolCallId
                  /\ v.toolCalls[1][k].toolName = r.toolCalls[1][k].toolName
                  /\ v.toolCalls[1][k].args = r.toolCalls[1][k].args
        /\ v.finishReason = r.finishReason
        /\ v.text = (IF r.text = Undefined THEN "" ELSE r.text)

\* C31 witness: a result with two tool calls, call-2 first, and no text was
\* returned after a rejected first attempt
C31_Witness ==
  /\ SingleReturned /\ attempt = 2
  /\ modelOutcomes[2].text = Undefined
  /\ Len(modelOutcomes[2].toolCalls) = 1
  /\ Len(modelOutcomes[2].toolCalls[1]) = 2
  /\ modelOutcomes[2].toolCalls[1][1].toolCallId = "call-2"
  /\ singleResult.state = "fulfilled"
  /\ singleResult.value.text = ""

\* ------------------------------------------------------ claims C31 to C39
IsPrefix(s, t) == Len(s) <= Len(t) /\ SubSeq(t, 1, Len(s)) = s

\* C32: the text finalResponse() would return in a state is a prefix of the
\* text it would return in the next state: the aggregated text only grows.
C32_TextOnlyGrows ==
  [][IsPrefix(MessageText(FinalResponseNow), MessageText(FinalResponseNow)')]_vars

\* C32 witness: finalResponse() resolved with a text while the stream was
\* being read, and the text returned now is longer
C32_Witness ==
  /\ LoopEnded
  /\ \E k \in 1..Len(accessorCalls) :
       /\ accessorCalls[k].accessor = "finalResponse"
       /\ accessorCalls[k].early
       /\ MessageText(accessorCalls[k].value) # << >>
       /\ Len(MessageText(accessorCalls[k].value)) < Len(MessageText(FinalResponseNow))

\* items emitted on the live sequence so far that were not dropped
Emitted == Len(textStream.delivered) + Len(textStream.queue)

\* C33: onFinish is invoked exactly once per streaming call, when the read
\* loop has ended and the reader lock is released, on every exit path; after
\* it there is no onMessage invocation, no emission on the live sequence and
\* no second onFinish.
C33_OnFinishOnceAtTheEnd ==
  /\ [](Len(onFinishCalls) = IF LoopEnded THEN 1 ELSE 0)
  /\ [](onFinishCalls # << >> => ~readerLocked)
  /\ [][onFinishCalls # << >> =>
          /\ onFinishCalls' = onFinishCalls
          /\ onMessageCalls' = onMessageCalls
          /\ Emitted' <= Emitted]_vars

\* C33 witness: a call with onMessage invocations ended by a failed read and
\* onFinish was invoked once
C33_Witness ==
  /\ LoopEnded /\ TransportFailed
  /\ onMessageCalls # << >>
  /\ Len(onFinishCalls) = 1
  /\ ~readerLocked

\* C35: in the Anthropic streaming path the message given to onFinish has
\* exactly one text part, equal to the aggregated text, whether or not
\* finalResponse() was called while the stream was being read.
C35_OnFinishHasOneTextPart ==
  (LoopEnded /\ provider = "anthropic") =>
    \A k \in 1..Len(onFinishCalls) :
      onFinishCalls[k].finalResponse.content = <<TextPart(aggregatedTextContent)>>

\* C36: once the read loop has completed, finalResponse(), usage() and
\* stopReason() return the message content, usage numbers and stop reason
\* that were passed to onFinish.
C36_AccessorsAgreeWithOnFinish ==
  LoopEnded =>
    \A k \in 1..Len(onFinishCalls) :
      /\ onFinishCalls[k].finalResponse.content = FinalResponseNow.content
      /\ onFinishCalls[k].usage = UsageNow
      /\ onFinishCalls[k].stopReason = StopReasonNow

\* the live sequence has reached a terminal state
Terminal(ts) == ts.state # "readable" \/ ts.closeRequested \/ ts.cancelled

\* C38: once the live sequence is terminal, a text delta taken by the read
\* loop is not reported through onError.
C38_NoEmissionAfterTerminal ==
  [][(/\ Terminal(textStream)
      /\ pc \in {"line", "event"} /\ idx \in 1..Len(chunk)
      /\ TextOf(chunk[idx]) # << >>
      /\ IF provider = "openai" THEN chunk[idx].kind = "json" ELSE chunk[idx].ok) =>
       onErrorCalls' = onErrorCalls]_vars

\* onBeforeCall precedes the network request and every onMessage, and a
\* throwing onBeforeCall ends the call: no request, no onMessage, no
\* onFinish, onError invoked, the call fails
OnBeforeCallComesFirst ==
  /\ \A k \in 1..Len(requestLog) :
       requestLog[k] \in {"fetch", "onMessage"} =>
         \E j \in 1..(k - 1) : requestLog[j] = "onBeforeCall"
  /\ (requestPc = "settled" /\ failure = "onBeforeCall") =>
       /\ Count(requestLog, "onBeforeCall") = 1
       /\ Count(requestLog, "fetch") = 0
       /\ Count(requestLog, "onMessage") = 0
       /\ Count(requestLog, "onFinish") = 0
       /\ requestErrors # << >>
       /\ generateResult \in {Rejected(failure), Fulfilled(ErrorResult)}

\* C34 as stated: a registered onBeforeCall is invoked exactly once in every
\* call, before the network request and before any onMessage; when it
\* throws, no request is made, no onMessage or onFinish is invoked, onError
\* is invoked and the call fails.
C34_OnBeforeCallOncePerCall ==
  hasOnBeforeCall =>
    /\ requestPc = "settled" => Count(requestLog, "onBeforeCall") = 1
    /\ OnBeforeCallComesFirst

\* C34 amended: a registered onBeforeCall is invoked at most once, and
\* exactly once in every call whose messages were mapped; it precedes the
\* network request and every onMessage; when it throws, no request is made,
\* no onMessage or onFinish is invoked, onError is invoked and the call fails.
C34_OnBeforeCallOncePerMappedCall ==
  hasOnBeforeCall =>
    /\ Count(requestLog, "onBeforeCall") <= 1
    /\ (requestPc = "settled" /\ failure # "mapping") =>
         Count(requestLog, "onBeforeCall") = 1
    /\ OnBeforeCallComesFirst

\* C34 witness: a streaming call whose onBeforeCall threw has settled
C34_Witness ==
  /\ requestPc = "settled" /\ hasOnBeforeCall /\ failure = "onBeforeCall"
  /\ stream = "true"
  /\ requestLog = <<"onBeforeCall">>
  /\ generateResult = Rejected("onBeforeCall")

\* C37: one failure before the stream is established causes exactly one
\* onError invocation, counting request() and generate() together.
C37_OneOnErrorPerFailure ==
  (requestPc = "settled" /\ failure # "none") => Len(requestErrors) = 1

\* ------------------------------------------------ writeToServerResponse
\* writeToServerResponse: writeHead and getReader, then the async read()
\* that copies the stream to the response.
MaxChunks == 3

\* a call made on the ServerResponse
ResponseCall(op, value) == [op |-> op, value |-> value]

InitWriter ==
  /\ provider = "openai" /\ hasOnMessage = FALSE /\ family = "text"
  /\ StreamStart
  /\ NoTwoCalls /\ NoRequest /\ NoSingleShot
  /\ writerStream \in SeqsUpTo({1, 2}, MaxChunks)
  /\ writerEnding \in {"done", "error"}
  /\ writerIdx = 0
  /\ writerPc = "read"
  /\ responseLog = <<ResponseCall("writeHead", Absent)>>
  /\ readPromise = "pending"

\* await reader.read() resolves with a chunk
WriterRead ==
  /\ writerPc = "read" /\ writerIdx < Len(writerStream)
  /\ writerIdx' = writerIdx + 1
  /\ writerPc' = "write"
  /\ UNCHANGED <<streamVars, twoCallsVars, requestVars, singleVars, writerStream,
                 writerEnding, responseLog, readPromise>>

\* response.write(value)
WriterWrite ==
  /\ writerPc = "write"
  /\ responseLog' = Append(responseLog, ResponseCall("write", writerStream[writerIdx]))
  /\ writerPc' = "read"
  /\ UNCHANGED <<streamVars, twoCallsVars, requestVars, singleVars, writerStream,
                 writerEnding, writerIdx, readPromise>>

\* await reader.read() resolves with done: break
WriterReadDone ==
  /\ writerPc = "read" /\ writerIdx = Len(writerStream) /\ writerEnding = "done"
  /\ writerPc' = "finally"
  /\ UNCHANGED <<streamVars, twoCallsVars, requestVars, singleVars, writerStream,
                 writerEnding, writerIdx, responseLog, readPromise>>

\* a failed read that leaves read() without the finally block
WriterReadFailsSkipsEnd ==
  /\ writerPc = "read" /\ writerIdx = Len(writerStream) /\ writerEnding = "error"
  /\ writerPc' = "settled"
  /\ readPromise' = "rejected"
  /\ UNCHANGED <<streamVars, twoCallsVars, requestVars, singleVars, writerStream,
                 writerEnding, writerIdx, responseLog>>

\* await reader.read() rejects: catch rethrows, finally runs with the error
\* pending
WriterReadFails ==
  /\ writerPc = "read" /\ writerIdx = Len(writerStream) /\ writerEnding = "error"
  /\ writerPc' = "finallyThrown"
  /\ UNCHANGED <<streamVars, twoCallsVars, requestVars, singleVars, writerStream,
                 writerEnding, writerIdx, responseLog, readPromise>>

\* finally: response.end(); then read() resolves, or rejects with the error
WriterFinally ==
  /\ writerPc \in {"finally", "finallyThrown"}
  /\ responseLog' = Append(responseLog, ResponseCall("end", Absent))
  /\ readPromise' = IF writerPc = "finally" THEN "fulfilled" ELSE "rejected"
  /\ writerPc' = "settled"
  /\ UNCHANGED <<streamVars, twoCallsVars, requestVars, singleVars, writerStream,
                 writerEnding, writerIdx>>

NextWriter ==
  \/ WriterRead
  \/ WriterWrite
  \/ WriterReadDone
  \/ WriterReadFails
  \/ WriterFinally

SpecWriter == InitWriter /\ [][NextWriter]_vars

\* the values written to the response, in order
Written ==
  LET writes == SelectSeq(responseLog, LAMBDA c : c.op = "write")
  IN  [k \in 1..Len(writes) |-> writes[k].value]

\* C39: the chunks are written to the response in the order read, all of
\* them once read() has settled; response.end() is called exactly once, after
\* the last write, when the stream ends and when a read fails; nothing is
\* written after end().
C39_WriterCopiesThenEnds ==
  responseLog # << >> =>
    /\ IsPrefix(Written, writerStream)
    /\ \A k \in 1..Len(responseLog) : responseLog[k].op = "end" => k = Len(responseLog)
    /\ writerPc = "settled" =>
         /\ Written = writerStream
         /\ responseLog[Len(responseLog)].op = "end"
    /\ writerPc # "settled" =>
         \A k \in 1..Len(responseLog) : responseLog[k].op # "end"

\* C39 witness: three chunks were written, the next read failed, and the
\* response was ended
C39_Witness ==
  /\ writerPc = "settled" /\ writerEnding = "error" /\ readPromise = "rejected"
  /\ Written = <<2, 1, 2>>
  /\ responseLog[Len(responseLog)].op = "end"

====
